---- MODULE Spec2Model ----
(***************************************************************************)
(* A model of the GitHub webhook server (src/src/server.ts): the Express   *)
(* pipeline built by createServer, the signature check, the event/branch   *)
(* classification and the fire-and-forget deployment.                      *)
(*                                                                         *)
(* Data.  A JavaScript string on which the code computes (a ref, the       *)
(* ALLOWED_BRANCHES list) is a sequence of one-character strings.  A       *)
(* string that is only compared or embedded (a secret, a path, an event    *)
(* name) is a TLA+ string.  An optional value (an unset environment        *)
(* variable, an absent header, an absent body) is a sequence of length 0   *)
(* or 1.  The fixed Japanese texts of the responses are named by ASCII     *)
(* identifiers, each definition quoting the literal it stands for.         *)
(***************************************************************************)
EXTENDS Integers, Sequences, FiniteSets, TLC

(***************************************************************************)
(* Bounds of the model.                                                    *)
(***************************************************************************)
\* Requests of one run in the concurrent scenario.
MaxReq == 2

(***************************************************************************)
(* Optional values.                                                        *)
(***************************************************************************)
None == <<>>
Some(v) == <<v>>
IsSome(o) == o # <<>>
Get(o) == o[1]

(***************************************************************************)
(* Strings as sequences of characters, and the string functions the code   *)
(* calls on them.                                                          *)
(***************************************************************************)
S_main == <<"m", "a", "i", "n">>
S_master == <<"m", "a", "s", "t", "e", "r">>
S_develop == <<"d", "e", "v", "e", "l", "o", "p">>
S_staging == <<"s", "t", "a", "g", "i", "n", "g">>
S_feature_test == <<"f", "e", "a", "t", "u", "r", "e", "/", "t", "e", "s", "t">>
S_ref == <<"r", "e", "f">>
S_name == <<"n", "a", "m", "e">>
S_repository == <<"r", "e", "p", "o", "s", "i", "t", "o", "r", "y">>
S_pusher == <<"p", "u", "s", "h", "e", "r">>
\* 'refs/heads/' (server.ts:111, 171)
RefsHeads == <<"r", "e", "f", "s", "/", "h", "e", "a", "d", "s", "/">>
Comma == ","

\* String.prototype.indexOf: the first position (1-based) of pat in s, 0 if none.
IndexOf(s, pat) ==
  LET hits == {i \in 1..(Len(s) - Len(pat) + 1) : SubSeq(s, i, i + Len(pat) - 1) = pat}
  IN  IF hits = {} THEN 0 ELSE CHOOSE i \in hits : \A j \in hits : i <= j

\* String.prototype.replace(pat, rep) with a string pattern: the FIRST occurrence
\* of pat, wherever it is in s, is replaced; s is returned as is when there is none.
Replace(s, pat, rep) ==
  LET i == IndexOf(s, pat)
  IN  IF i = 0 THEN s
      ELSE SubSeq(s, 1, i - 1) \o rep \o SubSeq(s, i + Len(pat), Len(s))

\* A faulty variant that does not split.
SplitWhole(s, sep) == <<s>>

\* String.prototype.split(sep) with a one-character separator: the pieces
\* between the separators, empty pieces kept; ''.split(',') is [''].  The
\* cuts are the positions of the separators and the two ends of s; the k-th
\* piece lies between the k-th cut and the next.
Split(s, sep) ==
  LET cuts == {0, Len(s) + 1} \cup {i \in 1..Len(s) : s[i] = sep}
      Cut(k) == CHOOSE c \in cuts : Cardinality({d \in cuts : d < c}) = k - 1
  IN  [k \in 1..(Cardinality(cuts) - 1) |-> SubSeq(s, Cut(k) + 1, Cut(k + 1) - 1)]

\* Array.prototype.includes
Includes(arr, x) == \E i \in 1..Len(arr) : arr[i] = x

(***************************************************************************)
(* Configuration (getConfig, validateConfig).  The environment is a record *)
(* of optional strings, one field per variable the server reads.           *)
(***************************************************************************)
\* process.cwd()
Cwd == "/cwd"
\* 'yarn install && yarn build' (server.ts:38)
DefaultDeployCommand == "yarn install && yarn build"

\* x || d for a plain string: d when x is undefined or ''.
OrDefault(o, d) == IF IsSome(o) /\ Get(o) # "" THEN Get(o) ELSE d

\* A faulty variant that takes every non-empty value of ENABLE_DETAILED_LOGS
\* for true.
getConfigTruthyLogs(e) ==
  [secret |-> e.WEBHOOK_SECRET,
   projectPath |-> OrDefault(e.PROJECT_PATH, Cwd),
   deployCommand |-> OrDefault(e.DEPLOY_COMMAND, DefaultDeployCommand),
   allowedBranches |->
     IF IsSome(e.ALLOWED_BRANCHES)
     THEN Split(Get(e.ALLOWED_BRANCHES), Comma)
     ELSE <<S_main, S_master>>,
   enableDetailedLogs |-> e.ENABLE_DETAILED_LOGS \notin {None, Some("")}]

\* getConfig(): read from process.env at every call.
getConfig(e) ==
  [secret |-> e.WEBHOOK_SECRET,
   projectPath |-> OrDefault(e.PROJECT_PATH, Cwd),
   deployCommand |-> OrDefault(e.DEPLOY_COMMAND, DefaultDeployCommand),
   allowedBranches |->
     IF IsSome(e.ALLOWED_BRANCHES)
     THEN Split(Get(e.ALLOWED_BRANCHES), Comma)
     ELSE <<S_main, S_master>>,
   enableDetailedLogs |-> e.ENABLE_DETAILED_LOGS = Some("true")]

\* A faulty variant that lets the empty secret through.
validateConfigThrowsOnlyUnset(e) == ~IsSome(getConfig(e).secret)

\* validateConfig(): TRUE when it throws Error('WEBHOOK_SECRET ... ') , that
\* is when !config.secret: the secret is undefined or the empty string.
validateConfigThrows(e) ==
  LET config == getConfig(e)
  IN  ~(IsSome(config.secret) /\ Get(config.secret) # "")

\* The message of the error validateConfig throws:
\* 'WEBHOOK_SECRET 環境変数が必要です' (server.ts:48)
ErrSecretRequired == "WEBHOOK_SECRET_REQUIRED"

\* The environments a run may start in.
EnvUnset ==
  [WEBHOOK_SECRET |-> None, PROJECT_PATH |-> None, DEPLOY_COMMAND |-> None,
   ALLOWED_BRANCHES |-> None, ENABLE_DETAILED_LOGS |-> None]
EnvSecretOnly == [EnvUnset EXCEPT !.WEBHOOK_SECRET = Some("test-secret")]
EnvEmptySecret == [EnvUnset EXCEPT !.WEBHOOK_SECRET = Some("")]
EnvTest ==
  [WEBHOOK_SECRET |-> Some("test-secret"),
   PROJECT_PATH |-> Some("/test/project"),
   DEPLOY_COMMAND |-> Some("echo \"test deploy\""),
   ALLOWED_BRANCHES |->
     Some(S_main \o <<Comma>> \o S_master \o <<Comma>> \o S_staging),
   ENABLE_DETAILED_LOGS |-> Some("true")]
Envs == {EnvUnset, EnvEmptySecret, EnvSecretOnly, EnvTest}

\* The values the variables are given in the configuration scenario: unset,
\* empty, and for ALLOWED_BRANCHES lists of one name, of several, with an
\* empty piece and with a blank after the comma; for ENABLE_DETAILED_LOGS
\* the tokens 'true', 'false', '1' and 'TRUE'.
BranchLists ==
  {S_develop,
   S_main \o <<Comma>> \o S_master \o <<Comma>> \o S_staging,
   S_main \o <<Comma, Comma>> \o S_develop,
   S_main \o <<Comma, " ">> \o S_develop,
   <<>>}

ConfigEnvs ==
  {[WEBHOOK_SECRET |-> Some("test-secret"), PROJECT_PATH |-> p, DEPLOY_COMMAND |-> c,
    ALLOWED_BRANCHES |-> b, ENABLE_DETAILED_LOGS |-> l] :
     p \in {None, Some(""), Some("/test/project")},
     c \in {None, Some(""), Some("echo \"test deploy\"")},
     b \in {None} \cup {Some(x) : x \in BranchLists},
     l \in {None, Some(""), Some("true"), Some("false"), Some("1"), Some("TRUE")}}

(***************************************************************************)
(* Request bodies: the bytes on the wire as a sequence of JSON lexemes.    *)
(* Whitespace is a lexeme of its own, so two byte strings can differ and   *)
(* parse to one value.                                                     *)
(***************************************************************************)
Tok(t, v) == [t |-> t, v |-> v]
LBrace == Tok("{", <<>>)
RBrace == Tok("}", <<>>)
LBracket == Tok("[", <<>>)
RBracket == Tok("]", <<>>)
Colon == Tok(":", <<>>)
CommaTok == Tok(",", <<>>)
Ws == Tok("ws", <<" ">>)
\* Whitespace padding longer than the body limit.
Pad == Tok("pad", <<>>)
Str(s) == Tok("str", s)
Num(s) == Tok("num", s)
\* A bare word that is no JSON literal, as json in '{"invalid": json}'.
Word(s) == Tok("word", s)
\* One of the JSON literals true, false and null.
Lit(s) == Tok("lit", s)
\* A well-formed object or array in the place of a member's value, carried
\* as one lexeme: its bytes.
Nested(s) == Tok("nested", s)

\* limit: '10mb' (server.ts:220), in bytes
BodyLimit == 10485760

RECURSIVE ByteLength(_)
ByteLength(bytes) ==
  IF bytes = <<>> THEN 0
  ELSE LET tk == Head(bytes)
           n == CASE tk.t = "pad" -> BodyLimit + 1
                  [] tk.t = "str" -> Len(tk.v) + 2
                  [] tk.t \in {"num", "word", "ws", "lit", "nested"} -> Len(tk.v)
                  [] OTHER -> 1
       IN  n + ByteLength(Tail(bytes))

BodyRef(v) == <<LBrace, Str(S_ref), Colon, v, RBrace>>
B_main == BodyRef(Str(RefsHeads \o S_main))
B_main_ws == <<LBrace, Ws, Str(S_ref), Colon, Ws, Str(RefsHeads \o S_main), Ws, RBrace>>
B_staging == BodyRef(Str(RefsHeads \o S_staging))
B_master == BodyRef(Str(RefsHeads \o S_master))
B_sp_develop == BodyRef(Str(RefsHeads \o <<" ">> \o S_develop))
B_heads_only == BodyRef(Str(RefsHeads))
B_develop == BodyRef(Str(RefsHeads \o S_develop))
B_feature_test == BodyRef(Str(RefsHeads \o S_feature_test))
B_bare_main == BodyRef(Str(S_main))
B_inner == BodyRef(Str(<<"m", "a">> \o RefsHeads \o <<"i", "n">>))
B_num_ref == BodyRef(Num(<<"4", "2">>))
B_zero_ref == BodyRef(Num(<<"0">>))
B_null_ref == BodyRef(Lit(<<"n", "u", "l", "l">>))
B_false_ref == BodyRef(Lit(<<"f", "a", "l", "s", "e">>))
B_true_ref == BodyRef(Lit(<<"t", "r", "u", "e">>))
B_obj_ref == BodyRef(Nested(<<"{", "}">>))
B_empty_ref == BodyRef(Str(<<>>))
B_no_ref == <<LBrace, Str(S_name), Colon, Str(S_main), RBrace>>
B_empty_object == <<LBrace, RBrace>>
\* A push as GitHub sends it, with the repository and the pusher.
B_full ==
  <<LBrace, Str(S_ref), Colon, Str(RefsHeads \o S_main), CommaTok,
    Str(S_repository), Colon, Nested(<<"{", "}">>), CommaTok,
    Str(S_pusher), Colon, Nested(<<"{", "}">>), RBrace>>
B_array == <<LBracket, RBracket>>
B_scalar == <<Str(S_main)>>
B_malformed == <<LBrace, Str(S_name), Colon, Word(<<"j", "s", "o", "n">>), RBrace>>
B_truncated == <<LBrace, Str(S_ref), Colon>>
B_empty == <<>>
B_huge == <<LBrace, Pad, RBrace>>
B_huge_malformed == <<LBrace, Pad>>

(***************************************************************************)
(* JSON.parse on the lexemes, for the flat objects above: an object is a   *)
(* sequence of members, a later member of the same key overriding an       *)
(* earlier one.                                                            *)
(***************************************************************************)
StripWs(bytes) == SelectSeq(bytes, LAMBDA tk : tk.t \notin {"ws", "pad"})

IsScalar(tk) == tk.t \in {"str", "num", "lit"}

\* inner is member (',' member)* with member = string ':' value
IsMembers(inner) ==
  /\ Len(inner) % 4 = 3
  /\ \A i \in 1..Len(inner) :
       CASE i % 4 = 1 -> inner[i].t = "str"
         [] i % 4 = 2 -> inner[i] = Colon
         [] i % 4 = 3 -> IsScalar(inner[i]) \/ inner[i].t = "nested"
         [] OTHER -> inner[i] = CommaTok

Members(inner) ==
  [k \in 1..((Len(inner) + 1) \div 4) |->
     [key |-> inner[4 * k - 3].v, val |-> inner[4 * k - 1]]]

EmptyObject == [type |-> "object", members |-> <<>>]
EmptyArray == [type |-> "array", members |-> <<>>]

\* [ok |-> FALSE] is a SyntaxError.  toks is bound through a singleton set,
\* which TLC evaluates once; a LET would be re-evaluated at every use.
JsonParse(bytes) ==
  CHOOSE out \in {
      IF Len(toks) >= 2 /\ toks[1] = LBrace /\ toks[Len(toks)] = RBrace
      THEN IF Len(toks) = 2 THEN [ok |-> TRUE, value |-> EmptyObject]
           ELSE IF IsMembers(SubSeq(toks, 2, Len(toks) - 1))
                THEN [ok |-> TRUE,
                      value |-> [type |-> "object",
                                 members |-> Members(SubSeq(toks, 2, Len(toks) - 1))]]
                ELSE [ok |-> FALSE, value |-> EmptyObject]
      ELSE IF toks = <<LBracket, RBracket>>
           THEN [ok |-> TRUE, value |-> EmptyArray]
           ELSE IF Len(toks) = 1 /\ IsScalar(toks[1])
                THEN [ok |-> TRUE, value |-> [type |-> "scalar", members |-> <<>>]]
                ELSE [ok |-> FALSE, value |-> EmptyObject]
      : toks \in {StripWs(bytes)}} : TRUE

\* payload.<key>: the value of the last member named key, None for undefined.
Prop(value, key) ==
  LET hits == {i \in 1..Len(value.members) : value.members[i].key = key}
  IN  IF value.type # "object" \/ hits = {} THEN None
      ELSE Some(value.members[CHOOSE i \in hits : \A j \in hits : i >= j].val)

(***************************************************************************)
(* Signatures.  HMAC is an ideal keyed hash: the digest is the term        *)
(* (algorithm, key, message), so two digests are equal exactly when their  *)
(* inputs are.  A header value is its prefix, its digest, its length in    *)
(* characters (String.length) and its length in bytes (Buffer.from).       *)
(***************************************************************************)
\* characters of the hex digest of SHA-256, and of 'sha256='
Sha256HexLen == 64
Sha256PrefixLen == 7

Hmac(alg, key, msg) == [alg |-> alg, key |-> key, msg |-> msg]
\* A digest part that was written by hand: no secret produced it.
Literal(name) == [alg |-> "literal", key |-> name, msg |-> <<>>]

HeaderValue(prefix, digest, length, byteLength) ==
  [prefix |-> prefix, digest |-> digest, length |-> length, byteLength |-> byteLength]

\* createSignature(payload, secret) of tests/utils.test.ts, and lines 86-88 of
\* verifySignature: 'sha256=' + hex(HMAC-SHA256(secret, payload))
createSignature(payload, secret) ==
  HeaderValue("sha256=", Hmac("sha256", secret, payload),
              Sha256PrefixLen + Sha256HexLen, Sha256PrefixLen + Sha256HexLen)

\* 'sha256=' followed by 64 zeros
SigZeros ==
  HeaderValue("sha256=", Literal("zeros"),
              Sha256PrefixLen + Sha256HexLen, Sha256PrefixLen + Sha256HexLen)
\* 'sha256=invalid-signature'
SigShort == HeaderValue("sha256=", Literal("invalid-signature"), Sha256PrefixLen + 17,
                        Sha256PrefixLen + 17)
\* 71 characters of which one takes two bytes in UTF-8
SigMultiByte ==
  HeaderValue("sha256=", Literal("multibyte"),
              Sha256PrefixLen + Sha256HexLen, Sha256PrefixLen + Sha256HexLen + 1)
\* the empty header value
SigEmpty == HeaderValue("", Literal(""), 0, 0)
\* 'sha1=' + hex(HMAC-SHA1(secret, payload)), the legacy X-Hub-Signature value
createSha1Signature(payload, secret) ==
  HeaderValue("sha1=", Hmac("sha1", secret, payload), 45, 45)

\* crypto.timingSafeEqual(Buffer.from(a), Buffer.from(b)): throws a RangeError
\* when the two buffers differ in byte length.
timingSafeEqual(a, b) ==
  IF a.byteLength # b.byteLength THEN "throw"
  ELSE IF a.prefix = b.prefix /\ a.digest = b.digest THEN "true" ELSE "false"

(***************************************************************************)
(* Requests.                                                               *)
(***************************************************************************)
Request(method, path, contentType, body, sig256, sigLegacy, event) ==
  [method |-> method, path |-> path, contentType |-> contentType, body |-> body,
   sig256 |-> sig256, sigLegacy |-> sigLegacy, event |-> event]

ContentJson == "application/json"
ContentForm == "application/x-www-form-urlencoded"

(***************************************************************************)
(* express.json({limit, verify}) (server.ts:218-225).  It reads the body   *)
(* only of a request that has one and whose content type is JSON; verify   *)
(* stores the bytes read as req.rawBody before they are parsed.            *)
(***************************************************************************)
FirstChar(bytes) ==
  LET toks == StripWs(bytes) IN IF toks = <<>> THEN "" ELSE toks[1].t

\* A faulty variant that keeps as rawBody the parsed value serialised again,
\* without the whitespace of the bytes received.
jsonMiddlewareReserialized(r) ==
  IF ~IsSome(r.body) \/ r.contentType # Some(ContentJson)
    THEN [err |-> "none", rawBody |-> None, body |-> EmptyObject]
    ELSE LET bytes == Get(r.body)
             parsed == JsonParse(bytes)
         IN  IF ByteLength(bytes) > BodyLimit
             THEN [err |-> "entity.too.large", rawBody |-> None, body |-> EmptyObject]
             ELSE IF bytes = <<>>
             THEN [err |-> "none", rawBody |-> Some(bytes), body |-> EmptyObject]
             ELSE IF FirstChar(bytes) \notin {"{", "["} \/ ~parsed.ok
             THEN [err |-> "entity.parse.failed", rawBody |-> Some(bytes),
                   body |-> EmptyObject]
             ELSE [err |-> "none", rawBody |-> Some(StripWs(bytes)), body |-> parsed.value]

\* err: "none" (next()), "entity.too.large" (413, no SyntaxError),
\* "entity.parse.failed" (a SyntaxError that carries the body).
jsonMiddleware(r) ==
  IF ~IsSome(r.body) \/ r.contentType # Some(ContentJson)
    THEN [err |-> "none", rawBody |-> None, body |-> EmptyObject]
    ELSE LET bytes == Get(r.body)
             parsed == JsonParse(bytes)
         IN  IF ByteLength(bytes) > BodyLimit
             THEN [err |-> "entity.too.large", rawBody |-> None, body |-> EmptyObject]
             ELSE IF bytes = <<>>
             THEN [err |-> "none", rawBody |-> Some(bytes), body |-> EmptyObject]
             ELSE IF FirstChar(bytes) \notin {"{", "["} \/ ~parsed.ok
             THEN [err |-> "entity.parse.failed", rawBody |-> Some(bytes),
                   body |-> EmptyObject]
             ELSE [err |-> "none", rawBody |-> Some(bytes), body |-> parsed.value]

(***************************************************************************)
(* verifySignature (server.ts:72-106).  verifyReason is the branch that    *)
(* decides: "threw" is the TypeError createHmac raises for an undefined    *)
(* key, outside the try block; "compare-threw" is the RangeError of        *)
(* timingSafeEqual, caught at line 102.                                    *)
(***************************************************************************)
\* A faulty variant without the checks of lines 76-84 and 92-95 that accepts
\* any header of the right length.
verifyReasonLengthOnly(headers, rawBody, e) ==
  IF ~IsSome(headers.sig256) THEN "missing-header"
  ELSE IF Get(headers.sig256).length = Sha256PrefixLen + Sha256HexLen THEN "ok"
  ELSE "length-mismatch"

\* A faulty variant that compares with ==, and so accepts an absent header
\* when there is nothing to compare it with.
verifyReasonNoHeaderCheck(headers, rawBody, e) ==
  IF ~IsSome(rawBody) THEN "missing-body"
  ELSE IF ~IsSome(headers.sig256) THEN "ok"
  ELSE IF Get(headers.sig256) = createSignature(Get(rawBody), Get(getConfig(e).secret))
       THEN "ok" ELSE "mismatch"

\* A faulty variant that falls back on the legacy x-hub-signature header when
\* x-hub-signature-256 is absent.
verifyReasonLegacyFallback(headers, rawBody, e) ==
  IF IsSome(headers.sig256) THEN verifyReasonNoHeaderCheck(headers, rawBody, e)
  ELSE IF ~IsSome(headers.sigLegacy) THEN "missing-header"
  ELSE IF ~IsSome(rawBody) THEN "missing-body"
  ELSE IF Get(headers.sigLegacy) =
            createSha1Signature(Get(rawBody), Get(getConfig(e).secret))
       THEN "ok" ELSE "mismatch"

verifyReason(headers, rawBody, e) ==
  LET config == getConfig(e)
      signature == headers.sig256
  IN  IF ~IsSome(signature) \/ Get(signature).length = 0 THEN "missing-header"
      ELSE IF ~IsSome(rawBody) THEN "missing-body"
      ELSE IF ~IsSome(config.secret) THEN "threw"
      ELSE LET expected == createSignature(Get(rawBody), Get(config.secret))
               cmp == timingSafeEqual(Get(signature), expected)
           IN  IF Get(signature).length # expected.length THEN "length-mismatch"
               ELSE IF cmp = "throw" THEN "compare-threw"
               ELSE IF cmp = "true" THEN "ok"
               ELSE "mismatch"

\* The boolean verifySignature returns (when it returns).
verifySignature(headers, rawBody, e) == verifyReason(headers, rawBody, e) = "ok"

(***************************************************************************)
(* isAllowedBranch (server.ts:109-113).                                    *)
(***************************************************************************)
ExtractBranch(ref) == Replace(ref, RefsHeads, <<>>)

\* A faulty variant that allows every branch.
isAllowedBranchAlways(ref, e) == TRUE

isAllowedBranch(ref, e) == Includes(getConfig(e).allowedBranches, ExtractBranch(ref))

(***************************************************************************)
(* Responses.  A body is {error: text} or {message: text}; arg is the      *)
(* value interpolated into a template text, timestamp tells whether the    *)
(* body carries one.                                                       *)
(***************************************************************************)
\* '無効な署名です' (server.ts:154)
MsgInvalidSignature == "INVALID_SIGNATURE"
\* '無効なJSONです' (server.ts:230)
MsgInvalidJson == "INVALID_JSON"
\* 'ページが見つかりません' (server.ts:245)
MsgNotFound == "NOT_FOUND"
\* '内部サーバーエラー' (server.ts:194, 252)
MsgInternalError == "INTERNAL_SERVER_ERROR"
\* `${event} イベントを無視しました` (server.ts:165)
MsgEventIgnored == "EVENT_IGNORED"
\* `ブランチ ${branch} へのプッシュを無視しました` (server.ts:173)
MsgBranchIgnored == "BRANCH_IGNORED"
\* 'デプロイが正常にトリガーされました' (server.ts:189)
MsgDeployTriggered == "DEPLOY_TRIGGERED"
\* 'GitHub Webhook サーバーが稼働中です' (server.ts:240)
MsgRunning == "SERVER_RUNNING"
\* status: 'healthy' (server.ts:201)
MsgHealthy == "healthy"

ErrorBody(text) == [kind |-> "error", text |-> text, arg |-> <<>>, timestamp |-> FALSE]
MessageBody(text, arg, ts) ==
  [kind |-> "message", text |-> text, arg |-> arg, timestamp |-> ts]
HealthBody == [kind |-> "health", text |-> MsgHealthy, arg |-> <<>>, timestamp |-> TRUE]
NoBody == [kind |-> "", text |-> "", arg |-> <<>>, timestamp |-> FALSE]

\* What handling a request comes to: the response, the disposition, the branch
\* verifySignature took ("" when it did not run) and the commands handed to exec.
Outcome(status, body, disposition, verify, commands) ==
  [status |-> status, body |-> body, disposition |-> disposition,
   verify |-> verify, commands |-> commands]

(***************************************************************************)
(* executeDeployment (server.ts:116-147): the command line handed to exec. *)
(***************************************************************************)
\* timeout: 300000 (server.ts:124), in milliseconds
DeployTimeoutMs == 300000

\* A faulty variant that runs the command without changing directory.
CommandLineNoCd(e) == <<getConfig(e).deployCommand>>

\* `cd ${config.projectPath} && ${config.deployCommand}`
CommandLine(e) ==
  LET config == getConfig(e)
  IN  <<"cd ", config.projectPath, " && ", config.deployCommand>>

(***************************************************************************)
(* handleWebhook (server.ts:150-196).                                      *)
(***************************************************************************)
\* JavaScript truthiness of a JSON value: '', 0, false and null are falsy,
\* every object and array is truthy.
Truthy(tk) ==
  CASE tk.t = "str" -> tk.v # <<>>
    [] tk.t = "num" -> tk.v # <<"0">>
    [] tk.t = "lit" -> tk.v = <<"t", "r", "u", "e">>
    [] OTHER -> TRUE

\* `${event}`: an absent header interpolates as 'undefined'.
EventText(event) == IF IsSome(event) THEN Get(event) ELSE "undefined"

\* A faulty variant that names the whole ref in the branch-ignore message.
ClassifyPushNamesRef(payload, e) ==
  LET ref == Prop(payload, S_ref)
  IN  IF IsSome(ref) /\ Truthy(Get(ref)) /\ Get(ref).t # "str"
      THEN Outcome(500, ErrorBody(MsgInternalError), "Fault", "ok", <<>>)
      ELSE IF IsSome(ref) /\ Truthy(Get(ref)) /\ ~isAllowedBranch(Get(ref).v, e)
      THEN Outcome(200, MessageBody(MsgBranchIgnored, Get(ref).v, FALSE),
                   "IgnoredBranch", "ok", <<>>)
      ELSE Outcome(200, MessageBody(MsgDeployTriggered, <<>>, TRUE),
                   "Accept", "ok", <<CommandLine(e)>>)

\* A faulty variant that looks up the branch of every push, taking the
\* branch of a push without a ref to be the empty name.
ClassifyPushRequiresRef(payload, e) ==
  LET ref == Prop(payload, S_ref)
      name == IF IsSome(ref) /\ Get(ref).t = "str" THEN Get(ref).v ELSE <<>>
  IN  IF IsSome(ref) /\ Truthy(Get(ref)) /\ Get(ref).t # "str"
      THEN Outcome(500, ErrorBody(MsgInternalError), "Fault", "ok", <<>>)
      ELSE IF ~isAllowedBranch(name, e)
      THEN Outcome(200, MessageBody(MsgBranchIgnored, ExtractBranch(name), FALSE),
                   "IgnoredBranch", "ok", <<>>)
      ELSE Outcome(200, MessageBody(MsgDeployTriggered, <<>>, TRUE),
                   "Accept", "ok", <<CommandLine(e)>>)

\* A faulty variant that takes a ref that is not a string for the name of a
\* branch that is not allowed, instead of failing on it.
ClassifyPushCoercesRef(payload, e) ==
  LET ref == Prop(payload, S_ref)
  IN  IF IsSome(ref) /\ Truthy(Get(ref)) /\ Get(ref).t # "str"
      THEN Outcome(200, MessageBody(MsgBranchIgnored, <<>>, FALSE),
                   "IgnoredBranch", "ok", <<>>)
      ELSE IF IsSome(ref) /\ Truthy(Get(ref)) /\ ~isAllowedBranch(Get(ref).v, e)
      THEN Outcome(200, MessageBody(MsgBranchIgnored, ExtractBranch(Get(ref).v), FALSE),
                   "IgnoredBranch", "ok", <<>>)
      ELSE Outcome(200, MessageBody(MsgDeployTriggered, <<>>, TRUE),
                   "Accept", "ok", <<CommandLine(e)>>)

\* Lines 169-191, reached for a push event: the branch check, then the
\* deployment and the acceptance response.
ClassifyPush(payload, e) ==
  CHOOSE out \in {
      IF IsSome(ref) /\ Truthy(Get(ref)) /\ Get(ref).t # "str"
      \* ref.replace is not a function: a TypeError, caught at line 192
      THEN Outcome(500, ErrorBody(MsgInternalError), "Fault", "ok", <<>>)
      ELSE IF IsSome(ref) /\ Truthy(Get(ref)) /\ ~isAllowedBranch(Get(ref).v, e)
      THEN Outcome(200, MessageBody(MsgBranchIgnored, ExtractBranch(Get(ref).v), FALSE),
                   "IgnoredBranch", "ok", <<>>)
      ELSE Outcome(200, MessageBody(MsgDeployTriggered, <<>>, TRUE),
                   "Accept", "ok", <<CommandLine(e)>>)
      : ref \in {Prop(payload, S_ref)}} : TRUE

\* A faulty variant that takes every event for a push.
ClassifyAnyEvent(headers, payload, e) == ClassifyPush(payload, e)

\* A faulty variant that checks the branch before the event type.
ClassifyBranchFirst(headers, payload, e) ==
  IF ClassifyPush(payload, e).disposition = "IgnoredBranch"
  THEN ClassifyPush(payload, e)
  ELSE IF headers.event # Some("push")
  THEN Outcome(200, MessageBody(MsgEventIgnored, <<EventText(headers.event)>>, FALSE),
               "IgnoredEvent", "ok", <<>>)
  ELSE ClassifyPush(payload, e)

\* A faulty variant that takes a request without the event header for a push.
ClassifyMissingEventAsPush(headers, payload, e) ==
  IF IsSome(headers.event) /\ headers.event # Some("push")
  THEN Outcome(200, MessageBody(MsgEventIgnored, <<EventText(headers.event)>>, FALSE),
               "IgnoredEvent", "ok", <<>>)
  ELSE ClassifyPush(payload, e)

\* Lines 158-191, reached when the signature is valid.
Classify(headers, payload, e) ==
  IF headers.event # Some("push")
  THEN Outcome(200, MessageBody(MsgEventIgnored, <<EventText(headers.event)>>, FALSE),
               "IgnoredEvent", "ok", <<>>)
  ELSE ClassifyPush(payload, e)

\* A faulty variant that deploys before it looks at the signature.
handleWebhookDeployFirst(headers, rawBody, payload, e) ==
  LET reason == verifyReason(headers, rawBody, e)
  IN  IF reason = "threw"
      THEN Outcome(500, ErrorBody(MsgInternalError), "Fault", reason, <<CommandLine(e)>>)
      ELSE IF reason # "ok"
      THEN Outcome(403, ErrorBody(MsgInvalidSignature), "Rejected", reason,
                   <<CommandLine(e)>>)
      ELSE Classify(headers, payload, e)

\* A faulty variant whose 403 tells which check of verifySignature failed.
handleWebhookLeaksReason(headers, rawBody, payload, e) ==
  LET reason == verifyReason(headers, rawBody, e)
  IN  IF reason = "threw"
      THEN Outcome(500, ErrorBody(MsgInternalError), "Fault", reason, <<>>)
      ELSE IF reason # "ok"
      THEN Outcome(403, ErrorBody(reason), "Rejected", reason, <<>>)
      ELSE Classify(headers, payload, e)

handleWebhook(headers, rawBody, payload, e) ==
  CHOOSE out \in {
      IF reason = "threw"
      THEN Outcome(500, ErrorBody(MsgInternalError), "Fault", reason, <<>>)
      ELSE IF reason # "ok"
      THEN Outcome(403, ErrorBody(MsgInvalidSignature), "Rejected", reason, <<>>)
      ELSE Classify(headers, payload, e)
      : reason \in {verifyReason(headers, rawBody, e)}} : TRUE

(***************************************************************************)
(* Logging (server.ts:58-69 and console.log).  A line is its level, its     *)
(* text and, in order, where each value interpolated into it or appended   *)
(* to it comes from: a field of the configuration, a header, a member of   *)
(* the payload, the output of the deployment command, an error caught.     *)
(***************************************************************************)
LogLine(level, text, args) == [level |-> level, text |-> text, args |-> args]

\* A faulty variant whose summary shows the secret as well.
validateConfigLogShowsSecret ==
  <<LogLine("log", "CONFIG_LOADED", <<>>),
    LogLine("log", "WEBHOOK_SECRET", <<"config.secret">>),
    LogLine("log", "PROJECT_PATH", <<"config.projectPath">>),
    LogLine("log", "DEPLOY_COMMAND", <<"config.deployCommand">>),
    LogLine("log", "ALLOWED_BRANCHES", <<"config.allowedBranches">>)>>

\* The summary validateConfig prints when it does not throw (lines 51-54).
validateConfigLog ==
  <<LogLine("log", "CONFIG_LOADED", <<>>),
    LogLine("log", "PROJECT_PATH", <<"config.projectPath">>),
    LogLine("log", "DEPLOY_COMMAND", <<"config.deployCommand">>),
    LogLine("log", "ALLOWED_BRANCHES", <<"config.allowedBranches">>)>>

\* What verifySignature logs on the branch it takes (lines 77, 82, 93, 99,
\* 103); expected, computed from the secret, is compared and never logged.
verifySignatureLog(reason) ==
  CASE reason = "missing-header" -> <<LogLine("warn", "NO_SIGNATURE_HEADER", <<>>)>>
    [] reason = "missing-body" -> <<LogLine("warn", "NO_RAW_BODY", <<>>)>>
    [] reason \in {"length-mismatch", "mismatch"} ->
         <<LogLine("warn", "INVALID_SIGNATURE", <<>>)>>
    [] reason = "compare-threw" -> <<LogLine("error", "VERIFY_FAILED", <<"error">>)>>
    [] OTHER -> <<>>

\* What handleWebhook logs for the outcome o it came to (lines 161, 164,
\* 172, 179-180, 193), after what verifySignature logged.
handleWebhookLog(payload, o) ==
  verifySignatureLog(o.verify) \o
  (IF o.verify = "threw" THEN <<LogLine("error", "HANDLER_ERROR", <<"error">>)>>
   ELSE IF o.verify # "ok" THEN <<>>
   ELSE <<LogLine("info", "EVENT_RECEIVED", <<"headers.x-github-event">>)>> \o
        (CASE o.disposition = "IgnoredEvent" ->
                <<LogLine("info", "EVENT_IGNORED", <<"headers.x-github-event">>)>>
           [] o.disposition = "IgnoredBranch" ->
                <<LogLine("info", "BRANCH_IGNORED", <<"payload.ref">>)>>
           [] o.disposition = "Fault" ->
                <<LogLine("error", "HANDLER_ERROR", <<"error">>)>>
           [] OTHER ->
                IF /\ IsSome(Prop(payload, S_repository))
                   /\ Truthy(Get(Prop(payload, S_repository)))
                   /\ IsSome(Prop(payload, S_pusher))
                   /\ Truthy(Get(Prop(payload, S_pusher)))
                THEN <<LogLine("info", "REPOSITORY", <<"payload.repository.full_name">>),
                       LogLine("info", "PUSHER",
                               <<"payload.pusher.name", "payload.pusher.email">>)>>
                ELSE <<>>))

\* What the middleware chain logs for request r, m being what express.json
\* made of it and o the outcome: the final error handler logs the error it
\* is handed (line 251), the other handlers outside handleWebhook log nothing.
RequestLog(r, m, o) ==
  IF m.err = "none"
  THEN IF r.method = "POST" /\ r.path = "/webhook" THEN handleWebhookLog(m.body, o)
       ELSE <<>>
  ELSE IF m.err = "entity.parse.failed" THEN <<>>
  ELSE <<LogLine("error", "UNHANDLED_ERROR", <<"error">>)>>

(***************************************************************************)
(* The middleware chain of createServer (server.ts:217-253), in order:     *)
(* express.json, the JSON parse error handler, the routes, the 404         *)
(* handler, the final error handler.                                       *)
(***************************************************************************)
\* A faulty variant that passes every error on to the final error handler.
jsonErrorHandlerPassesOn(err) == None

\* A faulty variant that registers the webhook handler for every method
\* (app.all) and leaves the other routes out.
RouteAnyMethod(r, m, e) ==
  IF r.path = "/webhook"
  THEN handleWebhook([sig256 |-> r.sig256, sigLegacy |-> r.sigLegacy, event |-> r.event],
                     m.rawBody, m.body, e)
  ELSE Outcome(404, ErrorBody(MsgNotFound), "NotFound", "", <<>>)

\* A faulty variant that checks the signature on /health as on /webhook.
RouteHealthChecksSignature(r, m, e) ==
  IF (r.path = "/webhook" /\ r.method = "POST") \/ (r.path = "/health" /\ r.method = "GET")
  THEN LET o == handleWebhook([sig256 |-> r.sig256, sigLegacy |-> r.sigLegacy,
                               event |-> r.event], m.rawBody, m.body, e)
       IN  IF r.path = "/health" /\ o.status = 200
           THEN Outcome(200, HealthBody, "Health", "", <<>>)
           ELSE o
  ELSE IF r.method = "GET" /\ r.path = "/"
  THEN Outcome(200, MessageBody(MsgRunning, <<>>, FALSE), "Root", "", <<>>)
  ELSE Outcome(404, ErrorBody(MsgNotFound), "NotFound", "", <<>>)

\* Lines 228-234: a SyntaxError that carries the body is answered 400; any
\* other error goes to next(error) (None).
jsonErrorHandler(err) ==
  IF err = "entity.parse.failed"
  THEN Some(Outcome(400, ErrorBody(MsgInvalidJson), "Malformed", "", <<>>))
  ELSE None

\* Lines 244-246.
notFoundHandler == Outcome(404, ErrorBody(MsgNotFound), "NotFound", "", <<>>)

\* A faulty variant that answers with the message of the error.
finalErrorHandlerLeaks ==
  [status |-> 500, body |-> ErrorBody("request entity too large"),
   disposition |-> "Fault", verify |-> "", commands |-> <<>>]

\* Lines 250-253.
finalErrorHandler == Outcome(500, ErrorBody(MsgInternalError), "Fault", "", <<>>)

\* req.headers as the handler reads them.
Headers(r) == [sig256 |-> r.sig256, sigLegacy |-> r.sigLegacy, event |-> r.event]

\* Lines 237-246.  A route registered with app.get also serves HEAD (Express
\* falls back from HEAD to GET when the route has no HEAD handler); a method
\* without a route on the path falls through to the 404 handler.  The body
\* recorded is the value handed to res.json.
Route(r, m, e) ==
  CASE r.method = "POST" /\ r.path = "/webhook" ->
         handleWebhook(Headers(r), m.rawBody, m.body, e)
    [] r.method \in {"GET", "HEAD"} /\ r.path = "/health" ->
         Outcome(200, HealthBody, "Health", "", <<>>)
    [] r.method \in {"GET", "HEAD"} /\ r.path = "/" ->
         Outcome(200, MessageBody(MsgRunning, <<>>, FALSE), "Root", "", <<>>)
    [] OTHER -> notFoundHandler

\* A faulty variant in which the routes that read no body come before the
\* body parser.
AfterJsonRoutesFirst(r, m, e) ==
  IF r.method \in {"GET", "HEAD"} /\ r.path \in {"/", "/health"} THEN Route(r, m, e)
  ELSE IF m.err = "none" THEN Route(r, m, e)
  ELSE IF IsSome(jsonErrorHandler(m.err)) THEN Get(jsonErrorHandler(m.err))
  ELSE finalErrorHandler

\* The chain after express.json, m being what express.json made of the
\* request: next() leads to the routes, next(err) to the error handlers.
AfterJson(r, m, e) ==
  IF m.err = "none" THEN Route(r, m, e)
  ELSE IF IsSome(jsonErrorHandler(m.err)) THEN Get(jsonErrorHandler(m.err))
  ELSE finalErrorHandler

Pipeline(r, e) == AfterJson(r, jsonMiddleware(r), e)

(***************************************************************************)
(* The requests clients send.                                              *)
(***************************************************************************)
TestSecret == "test-secret"
WrongSecret == "wrong-secret"

Bodies ==
  {B_main, B_main_ws, B_staging, B_develop, B_feature_test, B_bare_main, B_inner,
   B_num_ref, B_zero_ref, B_null_ref, B_false_ref, B_true_ref, B_obj_ref,
   B_empty_ref, B_no_ref, B_empty_object, B_full, B_array, B_scalar,
   B_malformed, B_truncated, B_empty, B_huge, B_huge_malformed}

\* The bytes a client signs: those of the body it sends, none without a body.
Signed(body) == IF IsSome(body) THEN Get(body) ELSE <<>>

\* The signature headers (x-hub-signature-256, x-hub-signature) a client may
\* send with a body.
SignatureHeaders(body) ==
  ({None,
    Some(createSignature(Signed(body), TestSecret)),
    Some(createSignature(Signed(body), WrongSecret)),
    Some(createSignature(B_main, TestSecret)),
    Some(SigZeros), Some(SigShort), Some(SigMultiByte), Some(SigEmpty)}
   \X {None})
  \cup {<<None, Some(createSha1Signature(Signed(body), TestSecret))>>}

WebhookRequests ==
  {Request("POST", "/webhook", Some(ct), body, sigs[1], sigs[2], event) :
     <<ct, body, event, sigs>> \in
       {x \in {ContentJson, ContentForm}
              \X ({None} \cup {Some(b) : b \in Bodies})
              \X {None, Some("push"), Some("issues")}
              \X UNION {SignatureHeaders(body) : body \in {None} \cup {Some(b) : b \in Bodies}} :
          x[4] \in SignatureHeaders(x[2])}}

\* The request methods clients use.
Methods == {"GET", "HEAD", "POST", "PUT", "PATCH", "DELETE", "OPTIONS"}

\* Requests on the other routes and methods, bare or dressed as a signed push.
OtherRequests ==
  {Request(x[1], x[2], Some(ContentJson), x[3],
           IF x[4] THEN Some(createSignature(Signed(x[3]), TestSecret)) ELSE None,
           None,
           IF x[4] THEN Some("push") ELSE None) :
     x \in {y \in Methods \X {"/", "/health", "/webhook", "/nonexistent"}
                  \X {None, Some(B_main), Some(B_malformed), Some(B_huge)}
                  \X BOOLEAN :
              ~(y[1] = "POST" /\ y[2] = "/webhook")}}

AllRequests == WebhookRequests \cup OtherRequests

\* A POST /webhook with a JSON body, signed with secret (None: unsigned).
Webhook(body, secret, event) ==
  Request("POST", "/webhook", Some(ContentJson), Some(body),
          IF IsSome(secret) THEN Some(createSignature(body, Get(secret))) ELSE None,
          None, Some(event))

\* The requests of the concurrent scenario, one of each disposition: a push
\* that is accepted, one to another branch, another event, an unsigned push,
\* a push signed with another secret, a malformed body, a push whose ref is
\* a number, GET /health and GET on an unknown path.
CoreRequests ==
  {Webhook(B_main, Some(TestSecret), "push"),
   Webhook(B_develop, Some(TestSecret), "push"),
   Webhook(B_main, Some(TestSecret), "issues"),
   Webhook(B_main, None, "push"),
   Webhook(B_main, Some(WrongSecret), "push"),
   Webhook(B_malformed, Some(TestSecret), "push"),
   Webhook(B_num_ref, Some(TestSecret), "push"),
   Request("GET", "/health", Some(ContentJson), None, None, None, None),
   Request("GET", "/nonexistent", Some(ContentJson), None, None, None, None)}

\* The requests of the configuration scenario: pushes signed with the
\* configured secret, one for each shape of ref.
ConfigBodies ==
  {B_main, B_master, B_staging, B_develop, B_sp_develop, B_feature_test,
   B_bare_main, B_inner, B_heads_only, B_no_ref, B_empty_object, B_array}

ConfigRequests == {Webhook(b, Some(TestSecret), "push") : b \in ConfigBodies}

\* The requests of the deployment scenario: pushes that are accepted, with
\* and without the repository and the pusher.
DeployRequests ==
  {Webhook(B_main, Some(TestSecret), "push"), Webhook(B_full, Some(TestSecret), "push")}

\* The requests of the shutdown scenario: a push that is accepted and GET
\* /health.
ShutdownRequests ==
  {Webhook(B_main, Some(TestSecret), "push"),
   Request("GET", "/health", Some(ContentJson), None, None, None, None)}

\* The requests clients send in a scenario.
RequestsOf(sc) ==
  CASE sc = "single" -> AllRequests
    [] sc = "concurrent" -> CoreRequests
    [] sc = "deploy" -> DeployRequests
    [] sc = "shutdown" -> ShutdownRequests
    [] OTHER -> ConfigRequests

(***************************************************************************)
(* State.                                                                  *)
(***************************************************************************)
VARIABLES
  env,         \* process.env
  bootEnv,     \* process.env as validateConfig read it in createServer, if it ran
  app,         \* "none", "created" (createServer returned), "threw"
  startError,  \* the message of the error createServer threw, if it did
  console,     \* the lines printed outside the handling of a request: the
               \* configuration summary, and those of the entry point
  scenario,    \* "single": one request of any shape; "concurrent": MaxReq core
               \* requests; "config": one push under a configuration of ConfigEnvs;
               \* "deploy": MaxReq accepted pushes, exec ending in every way;
               \* "shutdown": MaxReq requests to a process that is signalled
  reqs,        \* the requests, by arrival number; inFlight is the number of
               \* deployments that were running when the request was handled,
               \* during the state of the http.Server at that moment, log the
               \* lines logged while it was handled
  procs,       \* the deployment processes handed to exec, in order
  server,      \* the http.Server of app.listen: "none", "listening", "closing", "closed"
  exitCode     \* the code process.exit was called with, if it was

vars == <<env, bootEnv, app, startError, console, scenario, reqs, procs, server, exitCode>>

ReqIds == 1..MaxReq

NullRequest == Request("", "", None, None, None, None, None)

IdleReq ==
  [pc |-> "idle", input |-> NullRequest, status |-> 0, body |-> NoBody,
   disposition |-> "", verify |-> "", sent |-> 0, inFlight |-> 0, during |-> "", log |-> <<>>]

Init ==
  /\ env \in Envs
  /\ bootEnv = None
  /\ app = "none"
  /\ startError = None
  /\ console = <<>>
  /\ scenario \in {"single", "concurrent"}
  /\ reqs = [i \in ReqIds |-> IdleReq]
  /\ procs = <<>>
  /\ server = "none"
  /\ exitCode = None

\* createServer (server.ts:211-256): validateConfig first; when it throws
\* nothing has been built.
CreateServer ==
  /\ app = "none"
  /\ IF validateConfigThrows(env)
     THEN app' = "threw" /\ startError' = Some(ErrSecretRequired)
     ELSE app' = "created" /\ startError' = None
  /\ bootEnv' = Some(env)
  /\ console' = IF validateConfigThrows(env) THEN console ELSE console \o validateConfigLog
  /\ UNCHANGED <<env, scenario, server, exitCode, reqs, procs>>

\* A request reaches the application: its headers are read, its body is on
\* its way.  Requests are numbered in order of arrival.
Arrive(i) ==
  /\ app = "created"
  /\ reqs[i].pc = "idle"
  /\ i > 1 => reqs[i - 1].pc # "idle"
  /\ scenario \in {"single", "config"} => i = 1
  /\ \E r \in RequestsOf(scenario) :
       reqs' = [reqs EXCEPT ![i] = [IdleReq EXCEPT !.pc = "Received", !.input = r]]
  /\ UNCHANGED <<env, bootEnv, app, startError, console, scenario, server, exitCode, procs>>

\* What executeDeployment logs before it calls exec (lines 119-120).
DeployStartLog ==
  <<LogLine("info", "DEPLOY_START", <<>>),
    LogLine("info", "DEPLOY_COMMAND_LINE", <<"config.projectPath", "config.deployCommand">>)>>

\* The process executeDeployment starts for request i with command c.
\* verbose is config.enableDetailedLogs as executeDeployment read it at line
\* 117, before it called exec; logged tells whether the output of the command
\* has been logged; stderr is what the command wrote to its standard error,
\* log what executeDeployment has logged, promise the state of the promise
\* it returned and result the DeployResult it resolved with.
Proc(i, c) ==
  [req |-> i, command |-> c, status |-> "running", cause |-> "",
   verbose |-> getConfig(env).enableDetailedLogs, logged |-> FALSE,
   stderr |-> "", log |-> DeployStartLog, promise |-> "pending", result |-> None]

\* The body is complete and the middleware chain runs to the response, in
\* one turn of the event loop: nothing in it awaits.  executeDeployment runs
\* up to its await, exec has been called, before res.json sends the response.
\* The deployment processes that have not ended.
Running == {k \in 1..Len(procs) : procs[k].status = "running"}

\* A faulty variant with a single-flight lock: a deployment is started only
\* when none is running.
HandleSingleFlight(i) ==
  /\ reqs[i].pc = "Received"
  /\ \E m \in {jsonMiddleware(reqs[i].input)} :
     \E o \in {AfterJson(reqs[i].input, m, env)} :
         /\ reqs' = [reqs EXCEPT ![i] =
                       [@ EXCEPT !.pc = "Responded", !.status = o.status,
                                 !.body = o.body, !.disposition = o.disposition,
                                 !.verify = o.verify, !.sent = @ + 1,
                                 !.inFlight = Cardinality(Running),
                                 !.during = server,
                                 !.log = RequestLog(reqs[i].input, m, o)]]
         /\ procs' = IF Running = {}
                     THEN procs \o [k \in 1..Len(o.commands) |-> Proc(i, o.commands[k])]
                     ELSE procs
  /\ UNCHANGED <<env, bootEnv, app, startError, console, scenario, server, exitCode>>

\* A faulty variant that handles a request only once every deployment has
\* ended.
HandleAfterDeployments(i) ==
  /\ reqs[i].pc = "Received"
  /\ Running = {}
  /\ \E m \in {jsonMiddleware(reqs[i].input)} :
     \E o \in {AfterJson(reqs[i].input, m, env)} :
         /\ reqs' = [reqs EXCEPT ![i] =
                       [@ EXCEPT !.pc = "Responded", !.status = o.status,
                                 !.body = o.body, !.disposition = o.disposition,
                                 !.verify = o.verify, !.sent = @ + 1,
                                 !.inFlight = Cardinality(Running),
                                 !.during = server,
                                 !.log = RequestLog(reqs[i].input, m, o)]]
         /\ procs' = procs \o [k \in 1..Len(o.commands) |-> Proc(i, o.commands[k])]
  /\ UNCHANGED <<env, bootEnv, app, startError, console, scenario, server, exitCode>>

\* A faulty variant that remembers: while a deployment is running every
\* request is turned away with 500.
HandleBusy(i) ==
  /\ reqs[i].pc = "Received"
  /\ \E m \in {jsonMiddleware(reqs[i].input)} :
     \E o \in {IF Running = {} THEN AfterJson(reqs[i].input, m, env)
                ELSE finalErrorHandler} :
         /\ reqs' = [reqs EXCEPT ![i] =
                       [@ EXCEPT !.pc = "Responded", !.status = o.status,
                                 !.body = o.body, !.disposition = o.disposition,
                                 !.verify = o.verify, !.sent = @ + 1,
                                 !.inFlight = Cardinality(Running),
                                 !.during = server,
                                 !.log = RequestLog(reqs[i].input, m, o)]]
         /\ procs' = procs \o [k \in 1..Len(o.commands) |-> Proc(i, o.commands[k])]
  /\ UNCHANGED <<env, bootEnv, app, startError, console, scenario, server, exitCode>>

\* A faulty variant that ends a request it rejects without a response.
HandleDropsRejected(i) ==
  /\ reqs[i].pc = "Received"
  /\ \E m \in {jsonMiddleware(reqs[i].input)} :
     \E o \in {AfterJson(reqs[i].input, m, env)} :
         /\ reqs' = [reqs EXCEPT ![i] =
                       IF o.status = 403
                       THEN [@ EXCEPT !.pc = "Responded", !.disposition = o.disposition,
                                      !.verify = o.verify, !.during = server,
                                      !.log = RequestLog(reqs[i].input, m, o)]
                       ELSE [@ EXCEPT !.pc = "Responded", !.status = o.status,
                                      !.body = o.body, !.disposition = o.disposition,
                                      !.verify = o.verify, !.sent = @ + 1,
                                      !.inFlight = Cardinality(Running),
                                      !.during = server,
                                      !.log = RequestLog(reqs[i].input, m, o)]]
         /\ procs' = procs \o [k \in 1..Len(o.commands) |-> Proc(i, o.commands[k])]
  /\ UNCHANGED <<env, bootEnv, app, startError, console, scenario, server, exitCode>>

Handle(i) ==
  /\ reqs[i].pc = "Received"
  /\ \E m \in {jsonMiddleware(reqs[i].input)} :
     \E o \in {AfterJson(reqs[i].input, m, env)} :
         /\ reqs' = [reqs EXCEPT ![i] =
                       [@ EXCEPT !.pc = "Responded", !.status = o.status,
                                 !.body = o.body, !.disposition = o.disposition,
                                 !.verify = o.verify, !.sent = @ + 1,
                                 !.inFlight = Cardinality(Running),
                                 !.during = server,
                                 !.log = RequestLog(reqs[i].input, m, o)]]
         /\ procs' = procs \o [k \in 1..Len(o.commands) |-> Proc(i, o.commands[k])]
  /\ UNCHANGED <<env, bootEnv, app, startError, console, scenario, server, exitCode>>

\* How a deployment process can end: exit 0, a non-zero exit, killed at the
\* timeout of 5 minutes, or exec failing to start it.
DeployEnds == {"exit-0", "exit-nonzero", "timeout", "spawn-error"}

\* Every way the call of exec can end: those above, the command killed
\* because its output outgrew the buffer of exec (maxBuffer, 1 MiB when the
\* option is not given, as at lines 122-125), and exec throwing at the call.
ExecEnds == DeployEnds \cup {"max-buffer", "exec-threw"}

\* The ends looked at in a scenario: all of them in the deployment scenario,
\* a success and a failure in the shutdown scenario.
EndsOf(sc) ==
  CASE sc = "deploy" -> ExecEnds
    [] sc = "shutdown" -> {"exit-0", "exit-nonzero"}
    [] OTHER -> DeployEnds

\* What a command wrote to its standard error.
ChildStderr == "stderr of the command"

\* The standard error captured with an end: nothing when no process ran; in
\* the deployment scenario a command may or may not have written to it, in
\* the others a command that exits with 0 has not and a failing one has.
StderrOf(sc, end) ==
  IF end \in {"spawn-error", "exec-threw"} THEN {""}
  ELSE IF sc = "deploy" THEN {"", ChildStderr}
  ELSE IF end = "exit-0" THEN {""} ELSE {ChildStderr}

\* error.message of the error execAsync rejects with, as the origins of its
\* parts: exec builds 'Command failed: ' + command + '\n' + stderr for a
\* command that exited with a non-zero code or was killed at the timeout;
\* the messages of a spawn error, of an exceeded buffer and of a thrown
\* error carry neither the command nor its output.
ExecErrorMessage(end) ==
  IF end \in {"exit-nonzero", "timeout"}
  THEN <<"config.projectPath", "config.deployCommand", "stderr">>
  ELSE <<>>

\* What executeDeployment logs after its await (lines 127-134, 137-138)
\* for a process that ended as end with err on its standard error.
DeployEndLog(verbose, end, err) ==
  IF end = "exit-0"
  THEN (IF verbose
        THEN <<LogLine("info", "DEPLOY_STDOUT", <<"stdout">>)>> \o
             (IF err # "" THEN <<LogLine("warn", "DEPLOY_STDERR", <<"stderr">>)>> ELSE <<>>)
        ELSE <<>>) \o
       <<LogLine("info", "DEPLOY_DONE", <<>>)>>
  ELSE <<LogLine("error", "DEPLOY_FAILED", ExecErrorMessage(end))>>

\* The DeployResult executeDeployment returns (lines 135, 140-145); error is
\* errorMessage.
DeployResult(end, err) ==
  [success |-> end = "exit-0",
   error |-> IF end = "exit-0" THEN None ELSE Some(ExecErrorMessage(end)),
   stderr |-> err]

\* A faulty variant that calls exec outside the try block: an error thrown
\* at the call rejects the promise of executeDeployment, and the catch of
\* the handler (lines 184-186) logs it.
SettledUncaught(p, end, err) ==
  IF end = "exec-threw"
  THEN [p EXCEPT !.status = "failed", !.cause = end,
                 !.log = @ \o <<LogLine("error", "UNHANDLED_DEPLOY_ERROR", <<"error">>)>>,
                 !.promise = "rejected"]
  ELSE [p EXCEPT !.status = IF end = "exit-0" THEN "succeeded" ELSE "failed",
                 !.cause = end,
                 !.logged = (end = "exit-0" /\ p.verbose),
                 !.stderr = err,
                 !.log = @ \o DeployEndLog(p.verbose, end, err),
                 !.promise = "fulfilled",
                 !.result = Some(DeployResult(end, err))]

\* Process p once executeDeployment has resumed after its await and
\* returned: both the try block and the catch block end in a return, so the
\* promise is fulfilled whatever the end.
Settled(p, end, err) ==
  [p EXCEPT !.status = IF end = "exit-0" THEN "succeeded" ELSE "failed",
            !.cause = end,
            !.logged = (end = "exit-0" /\ p.verbose),
            !.stderr = err,
            !.log = @ \o DeployEndLog(p.verbose, end, err),
            !.promise = "fulfilled",
            !.result = Some(DeployResult(end, err))]

\* A faulty variant in which the handler awaited the deployment: a failure
\* is reported to the caller with a second response.
DeployExitAnswers(k) ==
  /\ exitCode = None
  /\ k \in 1..Len(procs)
  /\ procs[k].status = "running"
  /\ \E end \in DeployEnds :
       /\ procs' = [procs EXCEPT ![k] =
                      [@ EXCEPT !.status = IF end = "exit-0" THEN "succeeded" ELSE "failed",
                                !.cause = end]]
       /\ reqs' = IF end = "exit-0" THEN reqs
                  ELSE [reqs EXCEPT ![procs[k].req] =
                          [@ EXCEPT !.status = 500, !.body = ErrorBody(MsgInternalError),
                                    !.sent = @ + 1]]
  /\ UNCHANGED <<env, bootEnv, app, startError, console, scenario, server, exitCode>>

\* A faulty variant that calls exec without the timeout option: a
\* deployment ends only when the command ends by itself.
DeployExitNoTimeout(k) ==
  /\ exitCode = None
  /\ k \in 1..Len(procs)
  /\ procs[k].status = "running"
  /\ \E end \in DeployEnds \ {"timeout"} :
       procs' = [procs EXCEPT ![k] =
                   [@ EXCEPT !.status = IF end = "exit-0" THEN "succeeded" ELSE "failed",
                             !.cause = end,
                             !.logged = (end = "exit-0" /\ procs[k].verbose)]]
  /\ UNCHANGED <<env, bootEnv, app, startError, console, scenario, server, exitCode, reqs>>

\* A faulty variant that runs the command again when it failed.
DeployExitRetries(k) ==
  /\ exitCode = None
  /\ k \in 1..Len(procs)
  /\ procs[k].status = "running"
  /\ \E end \in DeployEnds :
       procs' = [procs EXCEPT ![k] =
                   [@ EXCEPT !.status = IF end = "exit-0" THEN "succeeded" ELSE "failed",
                             !.cause = end,
                             !.logged = (end = "exit-0" /\ procs[k].verbose)]]
                \o (IF end = "exit-0" \/ Len(procs) > MaxReq THEN <<>>
                    ELSE <<Proc(procs[k].req, procs[k].command)>>)
  /\ UNCHANGED <<env, bootEnv, app, startError, console, scenario, server, exitCode, reqs>>

\* The promise of execAsync settles and executeDeployment resumes after its
\* await: it logs and returns a DeployResult nobody reads; stdout and stderr
\* are logged on success when config.enableDetailedLogs (lines 127-132).
\* Nothing resumes in a process that has exited.
DeployExit(k) ==
  /\ exitCode = None
  /\ k \in 1..Len(procs)
  /\ procs[k].status = "running"
  /\ \E end \in EndsOf(scenario) : \E err \in StderrOf(scenario, end) :
       procs' = [procs EXCEPT ![k] = Settled(@, end, err)]
  /\ UNCHANGED <<env, bootEnv, app, startError, console, scenario, server, exitCode, reqs>>

Next ==
  \/ CreateServer
  \/ \E i \in ReqIds : Arrive(i)
  \/ \E i \in ReqIds : Handle(i)
  \/ \E k \in 1..Len(procs) : DeployExit(k)

Spec == Init /\ [][Next]_vars

\* One request of any shape to a server started in any environment.
InitSingle ==
  /\ env \in Envs
  /\ bootEnv = None
  /\ app = "none"
  /\ startError = None
  /\ console = <<>>
  /\ scenario = "single"
  /\ reqs = [i \in ReqIds |-> IdleReq]
  /\ procs = <<>>
  /\ server = "none"
  /\ exitCode = None

SpecSingle == InitSingle /\ [][Next]_vars

\* The server under each configuration of ConfigEnvs, one push at a time.
InitConfig ==
  /\ env \in ConfigEnvs
  /\ bootEnv = None
  /\ app = "none"
  /\ startError = None
  /\ console = <<>>
  /\ scenario = "config"
  /\ reqs = [i \in ReqIds |-> IdleReq]
  /\ procs = <<>>
  /\ server = "none"
  /\ exitCode = None

SpecConfig == InitConfig /\ [][Next]_vars

\* The server with detailed logs on and off, every request a push that is
\* accepted, and the call of exec ending in every way it can.
InitExec ==
  /\ env \in {EnvTest, [EnvTest EXCEPT !.ENABLE_DETAILED_LOGS = Some("false")], EnvSecretOnly}
  /\ bootEnv = None
  /\ app = "none"
  /\ startError = None
  /\ console = <<>>
  /\ scenario = "deploy"
  /\ reqs = [i \in ReqIds |-> IdleReq]
  /\ procs = <<>>
  /\ server = "none"
  /\ exitCode = None

SpecExec == InitExec /\ [][Next]_vars

\* The event loop does not stop while the handlers of some request whose
\* body has been read are ready to run: weak fairness of handling.  Nothing is
\* assumed of the child processes, which may run for ever, nor of the clients.
SpecLive == Spec /\ WF_vars(\E i \in ReqIds : Handle(i))

\* The timer of exec fires for deployment k, which has not ended by itself
\* within the timeout (server.ts:124): the child is killed.
KillAtTimeout(k) == DeployExit(k) /\ procs'[k].cause = "timeout"

\* Whether and when a command ends by itself is not in the hands of the
\* server; what is certain is that the timer of exec fires for a deployment
\* that is still running: weak fairness of the kill at the timeout.
SpecDeploy == Spec /\ WF_vars(\E k \in ReqIds : KillAtTimeout(k))

(***************************************************************************)
(* The same server in a process whose environment is assigned to after     *)
(* createServer has returned (process.env.X = v, delete process.env.X, as  *)
(* the tests do).  getConfig reads process.env at each call, so the        *)
(* handlers see the assignment.                                            *)
(***************************************************************************)
\* The assignments made: a rotated secret, a deleted secret, another list of
\* branches, another project path.
EnvAssignments ==
  {<<"WEBHOOK_SECRET", Some(WrongSecret)>>, <<"WEBHOOK_SECRET", None>>,
   <<"ALLOWED_BRANCHES", Some(S_develop)>>, <<"PROJECT_PATH", Some("/other/project")>>}

SetEnv ==
  /\ app = "created"
  /\ \E a \in EnvAssignments :
       /\ env[a[1]] # a[2]
       /\ env' = [env EXCEPT ![a[1]] = a[2]]
  /\ UNCHANGED <<bootEnv, app, startError, console, scenario, server, exitCode, reqs, procs>>

NextEnv == Next \/ SetEnv

SpecEnv == Init /\ [][NextEnv]_vars

(***************************************************************************)
(* The process of the entry point (server.ts:258-284): the application     *)
(* listens on a port, and SIGTERM and SIGINT close the http.Server and     *)
(* exit from the callback of close.  A connection holds one request; it    *)
(* stays open at least until the response of that request has been sent,   *)
(* and http.Server.close calls back once the server accepts no more and    *)
(* every connection has ended (idle connections are ended by close itself  *)
(* or by the keep-alive timeout, and hold nothing back).                   *)
(***************************************************************************)
\* const server = app.listen(PORT, ...) (server.ts:261-267)
Listen ==
  /\ app = "created" /\ server = "none" /\ exitCode = None
  /\ server' = "listening"
  /\ console' = console \o <<LogLine("log", "LISTENING", <<"PORT">>),
                              LogLine("log", "ENVIRONMENT", <<"env.NODE_ENV">>)>>
  /\ UNCHANGED <<env, bootEnv, app, startError, scenario, reqs, procs, exitCode>>

\* The listening server accepts a connection and its request reaches the
\* application.
Accept(i) == server = "listening" /\ Arrive(i)

Signals == {"SIGTERM", "SIGINT"}

\* Signals delivered to one process.
MaxSignals == 2

\* The signals the process has received, in order: each handler prints a
\* line that names its signal before it calls server.close (lines 271, 279).
Received == SelectSeq(console, LAMBDA l : l.text \in Signals)

\* A faulty variant whose handler exits at once, without closing the server.
SignalExits(sig) ==
  /\ sig \in Signals
  /\ server \in {"listening", "closing"} /\ exitCode = None
  /\ server' = "closed" /\ exitCode' = Some(0)
  /\ console' = console \o <<LogLine("log", sig, <<>>)>>
  /\ UNCHANGED <<env, bootEnv, app, startError, scenario, reqs, procs>>

\* A faulty variant whose handler exits at once when the server is already
\* closing.
SignalTwiceExits(sig) ==
  /\ sig \in Signals
  /\ server \in {"listening", "closing"} /\ exitCode = None
  /\ Len(Received) < MaxSignals
  /\ console' = console \o <<LogLine("log", sig, <<>>)>>
  /\ IF server = "closing"
     THEN server' = "closed" /\ exitCode' = Some(0)
     ELSE server' = "closing" /\ exitCode' = exitCode
  /\ UNCHANGED <<env, bootEnv, app, startError, scenario, reqs, procs>>

\* process.on(sig, ...) (server.ts:270-284): the line that names the signal,
\* then server.close(callback).  The server stops listening; a second signal
\* adds a callback to those waiting for the server to close and changes
\* nothing else.
Signal(sig) ==
  /\ sig \in Signals
  /\ server \in {"listening", "closing"} /\ exitCode = None
  /\ Len(Received) < MaxSignals
  /\ server' = "closing"
  /\ console' = console \o <<LogLine("log", sig, <<>>)>>
  /\ UNCHANGED <<env, bootEnv, app, startError, scenario, reqs, procs, exitCode>>

\* The connections whose request has not been answered.
OpenConnections == {i \in ReqIds : reqs[i].pc = "Received"}

\* A faulty variant that exits only when no deployment is running either.
ExitAwaitsDeployments ==
  /\ server = "closing" /\ exitCode = None
  /\ OpenConnections = {}
  /\ Running = {}
  /\ server' = "closed" /\ exitCode' = Some(0)
  /\ console' = console \o <<LogLine("log", "SERVER_CLOSED", <<>>)>>
  /\ UNCHANGED <<env, bootEnv, app, startError, scenario, reqs, procs>>

\* The callback of server.close (server.ts:272-275, 280-283), called when
\* the last connection has ended: the first of the callbacks that wait
\* prints its line and calls process.exit(0).
Exit ==
  /\ server = "closing" /\ exitCode = None
  /\ OpenConnections = {}
  /\ server' = "closed" /\ exitCode' = Some(0)
  /\ console' = console \o <<LogLine("log", "SERVER_CLOSED", <<>>)>>
  /\ UNCHANGED <<env, bootEnv, app, startError, scenario, reqs, procs>>

NextShutdown ==
  \/ CreateServer
  \/ Listen
  \/ \E i \in ReqIds : Accept(i)
  \/ \E i \in ReqIds : Handle(i)
  \/ \E k \in 1..Len(procs) : DeployExit(k)
  \/ \E sig \in Signals : Signal(sig)
  \/ Exit

\* The process from its start, with the requests of the shutdown scenario.
InitShutdown ==
  /\ env \in {EnvUnset, EnvTest}
  /\ bootEnv = None
  /\ app = "none"
  /\ startError = None
  /\ console = <<>>
  /\ scenario = "shutdown"
  /\ reqs = [i \in ReqIds |-> IdleReq]
  /\ procs = <<>>
  /\ server = "none"
  /\ exitCode = None

SpecShutdown == InitShutdown /\ [][NextShutdown]_vars

(***************************************************************************)
(* Properties.                                                             *)
(***************************************************************************)
IsWebhook(r) == r.method = "POST" /\ r.path = "/webhook"
Responded(i) == reqs[i].pc = "Responded"
\* The deployment processes started for request i.
Deployments(i) == {k \in 1..Len(procs) : procs[k].req = i}
\* What express.json made of request i: the raw bytes kept, the parsed payload.
Captured(i) == jsonMiddleware(reqs[i].input)
\* payload.ref of request i
Ref(i) == Prop(Captured(i).body, S_ref)
\* The ref of request i is a string, possibly empty.
HasStringRef(i) == IsSome(Ref(i)) /\ Get(Ref(i)).t = "str"
\* The ref of request i is a string that is not empty.
HasNamedRef(i) == HasStringRef(i) /\ Get(Ref(i)).v # <<>>
\* The handler finds no ref: none in the payload, or a falsy one ('', 0,
\* false or null).
HasNoRef(i) == ~IsSome(Ref(i)) \/ ~Truthy(Get(Ref(i)))
\* The branch the code extracts from the ref is one of the allowed branches.
BranchAllowed(i) ==
  \E k \in 1..Len(getConfig(env).allowedBranches) :
    getConfig(env).allowedBranches[k] = Replace(Get(Ref(i)).v, RefsHeads, <<>>)
AcceptBody == MessageBody(MsgDeployTriggered, <<>>, TRUE)
IsAccepted(i) == Responded(i) /\ reqs[i].status = 200 /\ reqs[i].body = AcceptBody

\* C1 (as stated): for every answered POST /webhook request, a deployment has
\* been triggered if and only if its signature verification succeeded, its
\* event type is push and its payload has a string ref whose branch is in the
\* allowed set.
C1_Original ==
  \A i \in ReqIds :
    Responded(i) /\ IsWebhook(reqs[i].input) =>
      (Deployments(i) # {} <=>
         /\ reqs[i].verify = "ok"
         /\ reqs[i].input.event = Some("push")
         /\ HasStringRef(i) /\ BranchAllowed(i))

\* C1 (amended): for every answered POST /webhook request, a deployment has
\* been triggered if and only if its signature verification succeeded, its
\* event type is push and either the handler finds no ref in the payload (none,
\* or a falsy one) or the ref is a string whose branch is in the allowed set.
C1_DeployIffAccepted ==
  \A i \in ReqIds :
    Responded(i) /\ IsWebhook(reqs[i].input) =>
      (Deployments(i) # {} <=>
         /\ reqs[i].verify = "ok"
         /\ reqs[i].input.event = Some("push")
         /\ HasNoRef(i) \/ (HasStringRef(i) /\ BranchAllowed(i)))

\* A verified push to an allowed branch has been answered and has its deployment,
\* beside a verified push to another branch that has none.
C1_Witness ==
  \E i, j \in ReqIds :
    /\ Responded(i) /\ reqs[i].verify = "ok" /\ HasNamedRef(i) /\ BranchAllowed(i)
    /\ Deployments(i) # {}
    /\ Responded(j) /\ reqs[j].verify = "ok" /\ HasNamedRef(j) /\ ~BranchAllowed(j)
    /\ reqs[j].input.event = Some("push") /\ Deployments(j) = {}

\* C2: no deployment process exists for a request that is not yet answered, or
\* that was answered 403, 400, 404, 500 or with a 200 ignore message.
C2_NoDeployOnRejectOrIgnore ==
  /\ \A k \in 1..Len(procs) : Responded(procs[k].req)
  /\ \A i \in ReqIds :
       (Responded(i) /\
          \/ reqs[i].status \in {400, 403, 404, 500}
          \/ reqs[i].status = 200 /\ reqs[i].body.text \in {MsgEventIgnored, MsgBranchIgnored})
       => Deployments(i) = {}

\* A rejected request (403) has been answered while the deployment of an
\* accepted one is running: requests interleave, and the count of processes is
\* that of the accepted request alone.
C2_Witness ==
  \E i, j \in ReqIds :
    /\ Responded(i) /\ reqs[i].status = 403
    /\ IsAccepted(j)
    /\ Len(procs) = 1 /\ procs[1].req = j /\ procs[1].status = "running"

\* C3: when verifySignature runs on the captured body P under the configured
\* secret S, the header 'sha256=' + hex(HMAC-SHA256(S, P)) passes, and the header
\* 'sha256=' + hex(HMAC-SHA256(S', P)) of any other secret S' fails and the
\* request is answered 403.
C3_VerifyRoundTrip ==
  \A i \in ReqIds :
    (/\ Responded(i) /\ IsWebhook(reqs[i].input)
     /\ Captured(i).err = "none" /\ IsSome(Captured(i).rawBody)) =>
      LET P == Get(Captured(i).rawBody)
          S == Get(env.WEBHOOK_SECRET)
      IN  /\ reqs[i].input.sig256 = Some(createSignature(P, S)) =>
               reqs[i].verify = "ok" /\ reqs[i].status # 403
          /\ \A S2 \in {TestSecret, WrongSecret} \ {S} :
               reqs[i].input.sig256 = Some(createSignature(P, S2)) =>
                 reqs[i].verify = "mismatch" /\ reqs[i].status = 403
                   /\ reqs[i].body = ErrorBody(MsgInvalidSignature)

\* A request signed with the wrong secret over the very bytes it carries went
\* through the comparison and was answered 403.
C3_Witness ==
  \E i \in ReqIds :
    /\ Responded(i) /\ IsSome(Captured(i).rawBody)
    /\ reqs[i].input.sig256 =
         Some(createSignature(Get(Captured(i).rawBody), WrongSecret))
    /\ reqs[i].verify = "mismatch" /\ reqs[i].status = 403

\* C4 (as stated): every answered POST /webhook request without an
\* x-hub-signature-256 header got 403 {error: MsgInvalidSignature}, whatever
\* its body and content type.
C4_Original ==
  \A i \in ReqIds :
    (Responded(i) /\ IsWebhook(reqs[i].input) /\ reqs[i].input.sig256 = None) =>
      reqs[i].status = 403 /\ reqs[i].body = ErrorBody(MsgInvalidSignature)

\* C4 (amended): every answered POST /webhook request without an
\* x-hub-signature-256 header that express.json let through (its body is not a
\* JSON-typed body that fails to parse or exceeds the limit) got 403
\* {error: MsgInvalidSignature}, whatever its body, content type and event type.
C4_MissingHeaderRejected ==
  \A i \in ReqIds :
    (/\ Responded(i) /\ IsWebhook(reqs[i].input) /\ reqs[i].input.sig256 = None
     /\ Captured(i).err = "none") =>
      /\ reqs[i].status = 403 /\ reqs[i].body = ErrorBody(MsgInvalidSignature)
      /\ reqs[i].verify = "missing-header"

\* A push with a well-formed JSON body and no signature header was answered 403.
C4_Witness ==
  \E i \in ReqIds :
    /\ Responded(i) /\ IsWebhook(reqs[i].input) /\ reqs[i].input.sig256 = None
    /\ reqs[i].input.body = Some(B_main) /\ reqs[i].input.contentType = Some(ContentJson)
    /\ reqs[i].input.event = Some("push")
    /\ reqs[i].status = 403

\* The bytes are not empty and are not JSON.
Malformed(bytes) == bytes # <<>> /\ ~JsonParse(bytes).ok

\* C5 (as stated): every answered POST /webhook request whose body is malformed
\* JSON got 400, without signature verification or classification having run
\* and without a deployment.
C5_Original ==
  \A i \in ReqIds :
    (/\ Responded(i) /\ IsWebhook(reqs[i].input)
     /\ IsSome(reqs[i].input.body) /\ Malformed(Get(reqs[i].input.body))) =>
      /\ reqs[i].status = 400
      /\ reqs[i].verify = "" /\ reqs[i].disposition = "Malformed"
      /\ Deployments(i) = {}

\* C5 (amended): every answered POST /webhook request whose body is malformed
\* JSON, is sent with the content type application/json and is within the body
\* limit got 400, whatever its signature header, without signature verification
\* or classification having run and without a deployment.
C5_MalformedJsonIs400 ==
  \A i \in ReqIds :
    (/\ Responded(i) /\ IsWebhook(reqs[i].input)
     /\ IsSome(reqs[i].input.body) /\ Malformed(Get(reqs[i].input.body))
     /\ reqs[i].input.contentType = Some(ContentJson)
     /\ ByteLength(Get(reqs[i].input.body)) <= BodyLimit) =>
      /\ reqs[i].status = 400
      /\ reqs[i].verify = "" /\ reqs[i].disposition = "Malformed"
      /\ Deployments(i) = {}

\* A malformed JSON body that carries a signature valid for its bytes, and a push
\* event, was answered 400.
C5_Witness ==
  \E i \in ReqIds :
    /\ Responded(i) /\ IsWebhook(reqs[i].input)
    /\ reqs[i].input.body = Some(B_malformed)
    /\ reqs[i].input.sig256 = Some(createSignature(B_malformed, TestSecret))
    /\ reqs[i].input.event = Some("push")
    /\ reqs[i].status = 400 /\ reqs[i].verify = ""

\* C6: every answered POST /webhook request whose signature verified, whose
\* event type is push and whose ref names a branch in the allowed set got 200
\* with the acceptance message and a timestamp, and exactly one deployment
\* process was started for it, with the command 'cd <projectPath> && <deployCommand>'.
C6_AcceptDeploysOnce ==
  \A i \in ReqIds :
    (/\ Responded(i) /\ IsWebhook(reqs[i].input)
     /\ reqs[i].verify = "ok" /\ reqs[i].input.event = Some("push")
     /\ HasNamedRef(i) /\ BranchAllowed(i)) =>
      /\ reqs[i].status = 200 /\ reqs[i].body = AcceptBody
      /\ Cardinality(Deployments(i)) = 1
      /\ \A k \in Deployments(i) :
           procs[k].command =
             <<"cd ", getConfig(env).projectPath, " && ", getConfig(env).deployCommand>>

\* A push to main was accepted under the configured project path and command,
\* and its one process runs that command line.
C6_Witness ==
  \E i \in ReqIds :
    /\ IsAccepted(i) /\ reqs[i].input.body = Some(B_main)
    /\ env.PROJECT_PATH = Some("/test/project")
    /\ \E k \in Deployments(i) :
         procs[k].command = <<"cd ", "/test/project", " && ", "echo \"test deploy\"">>

\* C7: every answered POST /webhook request whose signature verified and whose
\* event type is not push got 200 with the event-ignore message, naming the
\* event type it carries, and no deployment.
C7_OtherEventIgnored ==
  \A i \in ReqIds :
    (/\ Responded(i) /\ IsWebhook(reqs[i].input)
     /\ reqs[i].verify = "ok" /\ reqs[i].input.event # Some("push")) =>
      /\ reqs[i].status = 200
      /\ reqs[i].body.kind = "message" /\ reqs[i].body.text = MsgEventIgnored
      /\ IsSome(reqs[i].input.event) => reqs[i].body.arg = <<Get(reqs[i].input.event)>>
      /\ Deployments(i) = {}

\* A verified issues event whose ref names an allowed branch was ignored.
C7_Witness ==
  \E i \in ReqIds :
    /\ Responded(i) /\ reqs[i].verify = "ok"
    /\ reqs[i].input.event = Some("issues") /\ reqs[i].input.body = Some(B_main)
    /\ reqs[i].body = MessageBody(MsgEventIgnored, <<"issues">>, FALSE)
    /\ procs = <<>>

\* C8 (as stated): every answered POST /webhook request whose signature
\* verified, whose event type is push and whose ref is a string with a branch
\* outside the allowed set got 200 with the branch-ignore message naming the
\* extracted branch, and no deployment.
C8_Original ==
  \A i \in ReqIds :
    (/\ Responded(i) /\ IsWebhook(reqs[i].input)
     /\ reqs[i].verify = "ok" /\ reqs[i].input.event = Some("push")
     /\ HasStringRef(i) /\ ~BranchAllowed(i)) =>
      /\ reqs[i].status = 200
      /\ reqs[i].body =
           MessageBody(MsgBranchIgnored, Replace(Get(Ref(i)).v, RefsHeads, <<>>), FALSE)
      /\ Deployments(i) = {}

\* C8 (amended): the same for a ref that is a string and is not empty.
C8_OtherBranchIgnored ==
  \A i \in ReqIds :
    (/\ Responded(i) /\ IsWebhook(reqs[i].input)
     /\ reqs[i].verify = "ok" /\ reqs[i].input.event = Some("push")
     /\ HasNamedRef(i) /\ ~BranchAllowed(i)) =>
      /\ reqs[i].status = 200
      /\ reqs[i].body =
           MessageBody(MsgBranchIgnored, Replace(Get(Ref(i)).v, RefsHeads, <<>>), FALSE)
      /\ Deployments(i) = {}

\* A verified push to refs/heads/feature/test was ignored with the message that
\* names feature/test.
C8_Witness ==
  \E i \in ReqIds :
    /\ Responded(i) /\ reqs[i].verify = "ok"
    /\ reqs[i].input.body = Some(B_feature_test)
    /\ reqs[i].body = MessageBody(MsgBranchIgnored, S_feature_test, FALSE)
    /\ procs = <<>>

\* C9: every deployment process, running or ended in any way, belongs to a
\* request that has been answered, once, with 200 and the acceptance body: the
\* response precedes the outcome and no outcome alters or follows it.
C9_ResponseBeforeOutcome ==
  \A k \in 1..Len(procs) :
    /\ procs[k].req \in ReqIds
    /\ IsAccepted(procs[k].req)
    /\ reqs[procs[k].req].sent = 1

\* One deployment ended by the timeout and another succeeded; both requests keep
\* the same acceptance response.
C9_Witness ==
  \E k, l \in 1..Len(procs) :
    /\ procs[k].status = "failed" /\ procs[k].cause = "timeout"
    /\ procs[l].status = "succeeded"
    /\ IsAccepted(procs[k].req) /\ IsAccepted(procs[l].req)
    /\ reqs[procs[k].req].body = reqs[procs[l].req].body

\* C10: once createServer has run, it threw the error ErrSecretRequired and
\* produced no application (no request is ever received) if WEBHOOK_SECRET is
\* unset or empty, and it returned an application otherwise.
C10_SecretRequired ==
  /\ app = "none" => \A i \in ReqIds : reqs[i].pc = "idle"
  /\ app # "none" =>
       IF env.WEBHOOK_SECRET \in {None, Some("")}
       THEN /\ app = "threw" /\ startError = Some(ErrSecretRequired)
            /\ \A i \in ReqIds : reqs[i].pc = "idle"
            /\ procs = <<>>
       ELSE app = "created" /\ startError = None

\* createServer threw for the empty secret.
C10_Witness ==
  /\ app = "threw" /\ startError = Some(ErrSecretRequired)
  /\ env.WEBHOOK_SECRET = Some("")

\* C11: every answered request was verified, classified and deployed under the
\* configuration read when createServer ran: its status, body, disposition,
\* verification result and deployment commands are those the middleware chain
\* yields under the environment of that moment, whatever was assigned to the
\* environment since.
C11_ConfigIsSnapshot ==
  \A i \in ReqIds :
    Responded(i) =>
      LET o == Pipeline(reqs[i].input, Get(bootEnv))
      IN  /\ reqs[i].status = o.status /\ reqs[i].body = o.body
          /\ reqs[i].disposition = o.disposition /\ reqs[i].verify = o.verify
          /\ \A k \in Deployments(i) : procs[k].command \in {o.commands[n] : n \in 1..Len(o.commands)}
          /\ Cardinality(Deployments(i)) = Len(o.commands)

\* The method and path of r match a route: express serves HEAD with the
\* handlers of the GET routes.
Routed(r) ==
  \/ r.method = "POST" /\ r.path = "/webhook"
  \/ r.method \in {"GET", "HEAD"} /\ r.path \in {"/", "/health"}

\* C12 (as stated): every answered request that is not GET /, GET /health or
\* POST /webhook got 404 with the body {error: MsgNotFound}.
C12_Original ==
  \A i \in ReqIds :
    (/\ Responded(i)
     /\ ~(reqs[i].input.method = "GET" /\ reqs[i].input.path \in {"/", "/health"})
     /\ ~(reqs[i].input.method = "POST" /\ reqs[i].input.path = "/webhook")) =>
      reqs[i].status = 404 /\ reqs[i].body = ErrorBody(MsgNotFound)

\* C12 (amended): every answered request whose method and path match no route
\* (HEAD counting as GET) and whose body express.json let through got 404 with
\* the body {error: MsgNotFound}, without signature verification and without a
\* deployment.
C12_UnroutedIs404 ==
  \A i \in ReqIds :
    (Responded(i) /\ ~Routed(reqs[i].input) /\ Captured(i).err = "none") =>
      /\ reqs[i].status = 404 /\ reqs[i].body = ErrorBody(MsgNotFound)
      /\ reqs[i].verify = "" /\ Deployments(i) = {}

\* A PUT on /webhook that carries a push signed with the configured secret was
\* answered 404.
C12_Witness ==
  \E i \in ReqIds :
    /\ Responded(i) /\ reqs[i].input.method = "PUT" /\ reqs[i].input.path = "/webhook"
    /\ reqs[i].input.body = Some(B_main)
    /\ reqs[i].input.sig256 = Some(createSignature(B_main, TestSecret))
    /\ reqs[i].status = 404 /\ reqs[i].body = ErrorBody(MsgNotFound)

\* The body handed to res.json by the route of path p.
RouteBody(p) == IF p = "/" THEN MessageBody(MsgRunning, <<>>, FALSE) ELSE HealthBody

\* C13 (as stated): every answered GET / or GET /health got 200 with the body
\* of its route, whatever it carries, and no deployment.
C13_Original ==
  \A i \in ReqIds :
    (/\ Responded(i) /\ reqs[i].input.method = "GET"
     /\ reqs[i].input.path \in {"/", "/health"}) =>
      /\ reqs[i].status = 200 /\ reqs[i].body = RouteBody(reqs[i].input.path)
      /\ Deployments(i) = {}

\* C13 (amended): every answered GET / or GET /health whose body express.json
\* let through got 200 with the body of its route, whatever signature and
\* event headers it carries and whatever was handled before, without signature
\* verification and without a deployment.
C13_OpenRoutesAnswer200 ==
  \A i \in ReqIds :
    (/\ Responded(i) /\ reqs[i].input.method = "GET"
     /\ reqs[i].input.path \in {"/", "/health"}
     /\ Captured(i).err = "none") =>
      /\ reqs[i].status = 200 /\ reqs[i].body = RouteBody(reqs[i].input.path)
      /\ reqs[i].verify = "" /\ Deployments(i) = {}

\* A GET /health without any signature was answered 200 healthy in a run in
\* which an earlier request ended in 500, and no process was started.
C13_Witness ==
  \E i, j \in ReqIds :
    /\ i < j /\ Responded(i) /\ reqs[i].status = 500
    /\ Responded(j) /\ reqs[j].input.method = "GET" /\ reqs[j].input.path = "/health"
    /\ reqs[j].input.sig256 = None
    /\ reqs[j].status = 200 /\ reqs[j].body = HealthBody
    /\ procs = <<>>

\* C14: every answered POST /webhook request that carries the legacy
\* x-hub-signature header and no x-hub-signature-256 header was refused: it got
\* no 200 and no deployment, the legacy value was never compared, and when
\* the request reached the handler it got 403 {error: MsgInvalidSignature} for
\* the missing header, also when the legacy value is the HMAC-SHA1 of the
\* exact body under the configured secret.
C14_LegacySignatureRejected ==
  \A i \in ReqIds :
    (/\ Responded(i) /\ IsWebhook(reqs[i].input)
     /\ reqs[i].input.sig256 = None /\ IsSome(reqs[i].input.sigLegacy)) =>
      /\ reqs[i].status # 200 /\ Deployments(i) = {}
      /\ reqs[i].verify \in {"", "missing-header"}
      /\ Captured(i).err = "none" =>
           reqs[i].status = 403 /\ reqs[i].body = ErrorBody(MsgInvalidSignature)

\* A push to main whose only signature is the HMAC-SHA1 of its body under the
\* configured secret was answered 403.
C14_Witness ==
  \E i \in ReqIds :
    /\ Responded(i) /\ IsWebhook(reqs[i].input)
    /\ reqs[i].input.body = Some(B_main) /\ reqs[i].input.contentType = Some(ContentJson)
    /\ reqs[i].input.event = Some("push")
    /\ reqs[i].input.sig256 = None
    /\ env.WEBHOOK_SECRET = Some(TestSecret)
    /\ reqs[i].input.sigLegacy = Some(createSha1Signature(B_main, TestSecret))
    /\ reqs[i].status = 403 /\ procs = <<>>

\* The requests that have been answered with the acceptance response.
Accepted == {i \in ReqIds : IsAccepted(i)}

\* Request i is a verified push with no ref or with the ref of an allowed branch.
Acceptable(i) ==
  /\ IsWebhook(reqs[i].input) /\ reqs[i].verify = "ok"
  /\ reqs[i].input.event = Some("push")
  /\ HasNoRef(i) \/ (HasStringRef(i) /\ BranchAllowed(i))

\* C15: each answered request that is a verified push to an allowed branch got
\* the acceptance response and has exactly one deployment process of its own,
\* so that there are as many processes as accepted requests, and a process is
\* running from the moment its request is answered: none is held back for
\* another to end.
C15_OneDeploymentEach ==
  /\ \A i \in ReqIds : Responded(i) /\ Acceptable(i) => i \in Accepted
  /\ \A i \in Accepted : Cardinality(Deployments(i)) = 1
  /\ Len(procs) = Cardinality(Accepted)
  /\ \A k \in 1..Len(procs) :
       procs[k].req \in Accepted /\ procs[k].status \in {"running", "succeeded", "failed"}

\* Every accepted request of the run has its process and all of them are
\* running at the same time, the later ones accepted while the earlier ran.
C15_Witness ==
  /\ Accepted = ReqIds
  /\ Len(procs) = MaxReq
  /\ \A k \in 1..Len(procs) : procs[k].status = "running"
  /\ \E i \in ReqIds : reqs[i].inFlight = MaxReq - 1

\* C16: every request that has been received is answered, whether or not any
\* deployment in flight ever ends and whether or not any other request is
\* handled: its handling waits for nothing but its own turn of the event loop.
C16_NeverWaits ==
  \A i \in ReqIds : (reqs[i].pc = "Received") ~> (reqs[i].pc = "Responded")

\* A request was answered while a deployment was in flight, and that
\* deployment is still running.
C16_Witness ==
  \E i \in ReqIds :
    /\ Responded(i) /\ reqs[i].inFlight >= 1
    /\ reqs[i].status = 404
    /\ Running # {}

\* C17: what a request is answered is what the middleware chain yields for
\* its bytes and headers under the configuration, whatever was handled before it
\* and whatever is in flight; two answered requests with the same bytes and
\* headers have the same status, disposition and body.
C17_Stateless ==
  /\ \A i \in ReqIds :
       Responded(i) =>
         LET o == Pipeline(reqs[i].input, env)
         IN  /\ reqs[i].status = o.status /\ reqs[i].disposition = o.disposition
             /\ reqs[i].body = o.body
  /\ \A i, j \in ReqIds :
       (Responded(i) /\ Responded(j) /\ reqs[i].input = reqs[j].input) =>
         /\ reqs[i].status = reqs[j].status
         /\ reqs[i].disposition = reqs[j].disposition
         /\ reqs[i].body = reqs[j].body

\* The same signed push was sent twice; the second was handled while the
\* deployment of the first was running and was accepted like the first.
C17_Witness ==
  \E i, j \in ReqIds :
    /\ i # j /\ reqs[i].input = reqs[j].input
    /\ IsAccepted(i) /\ IsAccepted(j)
    /\ reqs[i].inFlight = 0 /\ reqs[j].inFlight = 1

\* C18: for every answered POST /webhook request with a JSON body of bytes B',
\* a header that is the signature of other bytes B, under any secret, did not
\* pass verification: the request got 403 and no deployment, also when B and
\* B' parse to the same JSON value; and the header that is the signature of
\* B' itself under the configured secret passed.
C18_SignatureOverExactBytes ==
  \A i \in ReqIds :
    (/\ Responded(i) /\ IsWebhook(reqs[i].input)
     /\ reqs[i].input.contentType = Some(ContentJson) /\ IsSome(reqs[i].input.body)
     /\ reqs[i].verify # "") =>
      LET received == Get(reqs[i].input.body)
      IN  /\ \A B \in Bodies \ {received} : \A S \in {TestSecret, WrongSecret} :
               reqs[i].input.sig256 = Some(createSignature(B, S)) =>
                 /\ reqs[i].verify = "mismatch" /\ reqs[i].status = 403
                 /\ Deployments(i) = {}
          /\ reqs[i].input.sig256 =
                Some(createSignature(received, Get(env.WEBHOOK_SECRET))) =>
                  reqs[i].verify = "ok"

\* A push whose bytes differ by whitespace from those that were signed with
\* the configured secret, and parse to the same value, was answered 403.
C18_Witness ==
  \E i \in ReqIds :
    /\ Responded(i) /\ IsWebhook(reqs[i].input)
    /\ reqs[i].input.body = Some(B_main_ws)
    /\ reqs[i].input.contentType = Some(ContentJson)
    /\ reqs[i].input.sig256 = Some(createSignature(B_main, TestSecret))
    /\ env.WEBHOOK_SECRET = Some(TestSecret)
    /\ B_main # B_main_ws /\ JsonParse(B_main) = JsonParse(B_main_ws)
    /\ reqs[i].verify = "mismatch" /\ reqs[i].status = 403

\* A fault was raised while request i was handled: express.json refused the
\* body as too large, createHmac threw for a missing secret, or ref.replace
\* threw for a ref that is not a string.
FaultRaised(i) ==
  \/ Captured(i).err = "entity.too.large"
  \/ IsWebhook(reqs[i].input) /\ reqs[i].verify = "threw"
  \/ /\ IsWebhook(reqs[i].input) /\ reqs[i].verify = "ok"
     /\ reqs[i].input.event = Some("push")
     /\ IsSome(Ref(i)) /\ Truthy(Get(Ref(i))) /\ Get(Ref(i)).t # "str"

\* C19: every answered request during whose handling a fault was raised got,
\* once, 500 with the body {error: MsgInternalError} and no deployment; the
\* application stays in place, and every request without a fault of its own
\* is answered what the middleware chain yields for it, never 500, whatever
\* faults came before.
C19_FaultsContained ==
  /\ \A i \in ReqIds :
       Responded(i) /\ FaultRaised(i) =>
         /\ reqs[i].status = 500 /\ reqs[i].body = ErrorBody(MsgInternalError)
         /\ reqs[i].sent = 1 /\ Deployments(i) = {}
  /\ \A i \in ReqIds :
       Responded(i) /\ ~FaultRaised(i) =>
         /\ reqs[i].status # 500
         /\ reqs[i].status = Pipeline(reqs[i].input, env).status
         /\ reqs[i].body = Pipeline(reqs[i].input, env).body
  /\ (\E i \in ReqIds : reqs[i].pc # "idle") => app = "created"

\* A push whose ref is a number was answered 500 with the generic body, and
\* the request after it was accepted and has its deployment.
C19_Witness ==
  \E i, j \in ReqIds :
    /\ i < j
    /\ Responded(i) /\ reqs[i].input.body = Some(B_num_ref) /\ reqs[i].verify = "ok"
    /\ reqs[i].status = 500 /\ reqs[i].body = ErrorBody(MsgInternalError)
    /\ IsAccepted(j) /\ Deployments(j) # {} /\ Deployments(i) = {}

\* The body of the failure response of a status code.
FailureBody(status) ==
  CASE status = 400 -> ErrorBody(MsgInvalidJson)
    [] status = 403 -> ErrorBody(MsgInvalidSignature)
    [] status = 404 -> ErrorBody(MsgNotFound)
    [] status = 500 -> ErrorBody(MsgInternalError)

\* C20: every response has one of the status codes 200, 400, 403, 404, 500,
\* and the body of every response with a status other than 200 is the fixed
\* body of that status: an {error: text} with one text per status and nothing
\* interpolated, whatever the secret, the check of verifySignature that failed
\* or the fault raised.
C20_FailureBodiesFixed ==
  \A i \in ReqIds :
    Responded(i) =>
      /\ reqs[i].status \in {200, 400, 403, 404, 500}
      /\ reqs[i].status # 200 =>
           /\ reqs[i].body = FailureBody(reqs[i].status)
           /\ reqs[i].body.arg = <<>> /\ ~reqs[i].body.timestamp

\* Two requests were answered 403, one for its missing header and one for a
\* digest that does not match, and their bodies are the same.
C20_Witness ==
  \E i, j \in ReqIds :
    /\ Responded(i) /\ reqs[i].status = 403 /\ reqs[i].verify = "missing-header"
    /\ Responded(j) /\ reqs[j].status = 403 /\ reqs[j].verify = "mismatch"
    /\ reqs[i].body = reqs[j].body

\* C21: the process exits only with code 0, from the callback of close after
\* a signal, and only when every request that was received has been answered,
\* once; from the signal on no request is received any more, and a request
\* that was in flight at the signal is answered as it would have been.
C21_GracefulShutdown ==
  /\ [](exitCode # None =>
         /\ exitCode = Some(0) /\ server = "closed"
         /\ \A i \in ReqIds :
              reqs[i].pc \in {"idle", "Responded"}
                /\ (Responded(i) =>
                      reqs[i].sent = 1
                        /\ reqs[i].status = Pipeline(reqs[i].input, env).status))
  /\ [][(server # "listening" =>
            (\A i \in ReqIds : reqs[i].pc = "idle" => reqs'[i].pc = "idle"))
         /\ (exitCode' # exitCode =>
            (server = "closing" /\ \A i \in ReqIds : reqs[i].pc # "Received"))]_vars

\* The process has exited with code 0 after a request that was in flight
\* when the signal came was accepted and answered while the server was closing,
\* and its deployment is still running.
C21_Witness ==
  /\ exitCode = Some(0)
  /\ \E i \in ReqIds :
       /\ IsAccepted(i) /\ reqs[i].during = "closing"
       /\ \E k \in Deployments(i) : procs[k].status = "running"

\* Only WEBHOOK_SECRET is set in the environment.
OnlySecretSet ==
  /\ IsSome(env.WEBHOOK_SECRET)
  /\ env.PROJECT_PATH = None /\ env.DEPLOY_COMMAND = None
  /\ env.ALLOWED_BRANCHES = None /\ env.ENABLE_DETAILED_LOGS = None

\* ref has the form refs/heads/<branch>.
IsHeadsRef(ref) ==
  Len(ref) >= Len(RefsHeads) /\ SubSeq(ref, 1, Len(RefsHeads)) = RefsHeads
\* The branch of a ref of the form refs/heads/<branch>.
BranchOf(ref) == SubSeq(ref, Len(RefsHeads) + 1, Len(ref))

\* C22: when only WEBHOOK_SECRET is set, the resolved configuration has the
\* working directory as project path, 'yarn install && yarn build' as deploy
\* command, main and master as allowed branches and no verbose logging: every
\* deployment runs 'cd <cwd> && yarn install && yarn build' without logging its
\* output, and a verified push to refs/heads/<b> is accepted exactly when b is
\* main or master.  Under every configuration, a deployment logs verbosely
\* exactly when ENABLE_DETAILED_LOGS is the string 'true'.
C22_Defaults ==
  /\ OnlySecretSet =>
       /\ getConfig(env).projectPath = Cwd
       /\ getConfig(env).deployCommand = "yarn install && yarn build"
       /\ {getConfig(env).allowedBranches[n] :
             n \in 1..Len(getConfig(env).allowedBranches)} = {S_main, S_master}
       /\ \A k \in 1..Len(procs) :
            /\ procs[k].command = <<"cd ", Cwd, " && ", "yarn install && yarn build">>
            /\ ~procs[k].verbose /\ ~procs[k].logged
       /\ \A i \in ReqIds :
            (/\ Responded(i) /\ reqs[i].verify = "ok"
             /\ reqs[i].input.event = Some("push")
             /\ HasNamedRef(i) /\ IsHeadsRef(Get(Ref(i)).v)) =>
              (IsAccepted(i) <=> BranchOf(Get(Ref(i)).v) \in {S_main, S_master})
  /\ \A k \in 1..Len(procs) :
       /\ procs[k].verbose <=> env.ENABLE_DETAILED_LOGS = Some("true")
       /\ procs[k].logged <=> (procs[k].verbose /\ procs[k].status = "succeeded")

\* With only the secret set a push to master was accepted and its deployment,
\* run with the default command in the working directory, succeeded without
\* its output being logged.
C22_Witness ==
  /\ OnlySecretSet
  /\ \E i \in ReqIds :
       /\ IsAccepted(i) /\ reqs[i].input.body = Some(B_master)
       /\ \E k \in Deployments(i) :
            /\ procs[k].status = "succeeded" /\ ~procs[k].logged
            /\ procs[k].command = <<"cd ", "/cwd", " && ", "yarn install && yarn build">>

\* b is one of the names of the comma-separated list: b has no comma and
\* stands in the list between two commas or ends of the list.
NamedIn(b, list) ==
  /\ \A n \in 1..Len(b) : b[n] # Comma
  /\ \E i \in 1..(Len(list) + 1) :
       /\ i + Len(b) - 1 <= Len(list)
       /\ SubSeq(list, i, i + Len(b) - 1) = b
       /\ (i = 1 \/ list[i - 1] = Comma)
       /\ (i + Len(b) - 1 = Len(list) \/ list[i + Len(b)] = Comma)

\* The list of allowed branches as written: ALLOWED_BRANCHES, 'main,master'
\* when it is unset.
BranchList ==
  IF IsSome(env.ALLOWED_BRANCHES) THEN Get(env.ALLOWED_BRANCHES)
  ELSE S_main \o <<Comma>> \o S_master

\* C23: every answered push whose signature verified and whose ref is
\* refs/heads/<b> got the acceptance response and exactly one deployment
\* when b is one of the names of the comma-separated list ALLOWED_BRANCHES,
\* and 200 with the branch-ignore message naming b and no deployment when it
\* is not.
C23_AllowedBranchesList ==
  \A i \in ReqIds :
    (/\ Responded(i) /\ IsWebhook(reqs[i].input) /\ reqs[i].verify = "ok"
     /\ reqs[i].input.event = Some("push")
     /\ HasNamedRef(i) /\ IsHeadsRef(Get(Ref(i)).v)) =>
      IF NamedIn(BranchOf(Get(Ref(i)).v), BranchList)
      THEN IsAccepted(i) /\ Cardinality(Deployments(i)) = 1
      ELSE /\ reqs[i].status = 200
           /\ reqs[i].body =
                MessageBody(MsgBranchIgnored, BranchOf(Get(Ref(i)).v), FALSE)
           /\ Deployments(i) = {}

\* Under ALLOWED_BRANCHES 'main,master,staging' a push to refs/heads/staging
\* was accepted and has its deployment.
C23_Witness ==
  /\ env.ALLOWED_BRANCHES =
       Some(<<"m", "a", "i", "n", ",", "m", "a", "s", "t", "e", "r", ",",
              "s", "t", "a", "g", "i", "n", "g">>)
  /\ \E i \in ReqIds :
       /\ reqs[i].input.body = Some(B_staging) /\ IsAccepted(i)
       /\ Cardinality(Deployments(i)) = 1

\* C24: every answered push whose signature verified and whose payload has no
\* ref got 200 with the acceptance message and exactly one deployment, running
\* the configured command, whatever ALLOWED_BRANCHES is.
C24_NoRefAccepted ==
  \A i \in ReqIds :
    (/\ Responded(i) /\ IsWebhook(reqs[i].input) /\ reqs[i].verify = "ok"
     /\ reqs[i].input.event = Some("push")
     /\ ~IsSome(Ref(i))) =>
      /\ reqs[i].status = 200 /\ reqs[i].body = AcceptBody
      /\ reqs[i].disposition = "Accept"
      /\ Cardinality(Deployments(i)) = 1
      /\ \A k \in Deployments(i) : procs[k].command = CommandLine(env)

\* A push whose payload has a name and no ref was accepted and deployed while
\* the only allowed branch is develop.
C24_Witness ==
  /\ env.ALLOWED_BRANCHES = Some(S_develop)
  /\ \E i \in ReqIds :
       /\ reqs[i].input.body = Some(B_no_ref) /\ reqs[i].verify = "ok"
       /\ IsAccepted(i) /\ Cardinality(Deployments(i)) = 1

\* C25: every answered POST /webhook request that carries a signature header
\* and has no body, an empty body, or a body that is not of the JSON content
\* type failed verification: it got 403 {error: MsgInvalidSignature} and no
\* deployment.
C25_NoRawBodyRejected ==
  \A i \in ReqIds :
    (/\ Responded(i) /\ IsWebhook(reqs[i].input)
     /\ IsSome(reqs[i].input.sig256)
     /\ \/ reqs[i].input.body \in {None, Some(B_empty)}
        \/ reqs[i].input.contentType # Some(ContentJson)) =>
      /\ reqs[i].status = 403 /\ reqs[i].body = ErrorBody(MsgInvalidSignature)
      /\ reqs[i].verify # "ok"
      /\ Deployments(i) = {}

\* verifySignature came to compare the header of request i with the expected
\* signature: a header and a raw body were found and the HMAC was computed.
Compared(i) ==
  reqs[i].verify \in {"length-mismatch", "compare-threw", "mismatch", "ok"}

\* C26: whenever verifySignature came to compare a header whose length in
\* bytes differs from that of the expected 'sha256=<64 hex>' string, also one
\* with the same number of characters, it returned false on the length check:
\* timingSafeEqual was never called on buffers of different lengths, and the
\* request got 403 and no deployment.
C26_LengthCheckedFirst ==
  \A i \in ReqIds :
    (Responded(i) /\ IsWebhook(reqs[i].input) /\ Compared(i)) =>
      LET signature == Get(reqs[i].input.sig256)
          expected == createSignature(Get(Captured(i).rawBody), Get(env.WEBHOOK_SECRET))
      IN  /\ reqs[i].verify # "compare-threw"
          /\ signature.byteLength # expected.byteLength =>
               /\ reqs[i].verify = "length-mismatch"
               /\ reqs[i].status = 403 /\ Deployments(i) = {}

\* C27: whatever has been assigned to the environment, verifySignature never
\* threw for an answered POST /webhook request: it returned true or false,
\* every request for which it did not return true got 403
\* {error: MsgInvalidSignature}, and no request got 500 without its signature
\* having verified, except for a body beyond the limit.
C27_VerifyNeverThrows ==
  \A i \in ReqIds :
    (Responded(i) /\ IsWebhook(reqs[i].input) /\ reqs[i].verify # "") =>
      /\ reqs[i].verify # "threw"
      /\ reqs[i].verify # "ok" =>
           reqs[i].status = 403 /\ reqs[i].body = ErrorBody(MsgInvalidSignature)
      /\ reqs[i].status = 500 => reqs[i].verify = "ok"

\* C28: every answered push whose signature verified and whose ref, a string
\* that is not empty, led to a deployment has as ref exactly refs/heads/<b> or
\* the bare name <b> of an allowed branch b: no ref with refs/heads/ elsewhere
\* than at its start was accepted.
C28_PrefixOnly ==
  \A i \in ReqIds :
    (/\ Responded(i) /\ IsWebhook(reqs[i].input) /\ reqs[i].verify = "ok"
     /\ reqs[i].input.event = Some("push") /\ HasNamedRef(i)
     /\ (IsAccepted(i) \/ Deployments(i) # {})) =>
      \E n \in 1..Len(getConfig(env).allowedBranches) :
        Get(Ref(i)).v \in {RefsHeads \o getConfig(env).allowedBranches[n],
                           getConfig(env).allowedBranches[n]}

\* C29: at every moment there are as many deployment processes, running or
\* ended, as requests answered with the acceptance response, one for each; a
\* process is started only in the step that answers a request, never in the
\* step in which a deployment ends, and a process that has ended, in success,
\* failure or timeout, stays as it ended.
C29_NoRetries ==
  /\ [](/\ Len(procs) = Cardinality(Accepted)
        /\ \A i \in Accepted : Cardinality(Deployments(i)) = 1
        /\ \A k \in 1..Len(procs) : procs[k].req \in Accepted)
  /\ [][/\ Len(procs') >= Len(procs)
         /\ (Len(procs') > Len(procs) =>
               \E i \in ReqIds : reqs[i].pc = "Received" /\ reqs'[i].pc = "Responded")
         /\ (\A k \in 1..Len(procs) :
               IF procs[k].status = "running"
               THEN procs'[k] # procs[k] => Len(procs') = Len(procs)
               ELSE procs'[k] = procs[k])]_vars

\* Every deployment of the run has failed, one at the timeout and one with a
\* non-zero exit, and there are still as many processes as accepted requests.
C29_Witness ==
  /\ Len(procs) >= 2 /\ Len(procs) = Cardinality(Accepted)
  /\ \A k \in 1..Len(procs) : procs[k].status = "failed"
  /\ \E k, l \in 1..Len(procs) :
       procs[k].cause = "timeout" /\ procs[l].cause = "exit-nonzero"

\* The deployment processes that have ended.
Ended == {k \in 1..Len(procs) : procs[k].status \in {"succeeded", "failed"}}

\* C30: every deployment that was started comes to an end, as a success or
\* as a failure, whether or not its command ever ends by itself; a deployment
\* ended by the timeout is a failure, and only a command that exited with 0
\* is a success.
C30_DeploymentsEnd ==
  /\ [](\A k \in 1..Len(procs) :
          /\ procs[k].status \in {"running", "succeeded", "failed"}
          /\ procs[k].cause = "timeout" => procs[k].status = "failed"
          /\ procs[k].status = "succeeded" <=> procs[k].cause = "exit-0"
          /\ procs[k].status = "running" <=> procs[k].cause = "")
  /\ \A k \in ReqIds : (k \in Running) ~> (k \in Ended)

\* No deployment is running any more: one was ended by the timeout and is a
\* failure, and one could not be started.
C30_Witness ==
  /\ Len(procs) >= 2 /\ Running = {}
  /\ \E k, l \in 1..Len(procs) :
       /\ procs[k].cause = "timeout" /\ procs[k].status = "failed"
       /\ procs[l].cause = "spawn-error" /\ procs[l].status = "failed"

\* The lines of a log.
Lines(log) == {log[n] : n \in 1..Len(log)}
\* The lines of a log that carry output of the deployment command.
OutputLines(log) == {l \in Lines(log) : \E n \in 1..Len(l.args) : l.args[n] \in {"stdout", "stderr"}}

\* C31: every deployment that failed has an error line in the log, with
\* detailed logs on or off, and when the command wrote to its standard error
\* that line carries what it wrote; the log of a deployment that succeeded
\* carries output of the command only with detailed logs on.
C31_FailuresLogged ==
  \A k \in 1..Len(procs) :
    /\ procs[k].status = "failed" =>
         \E l \in Lines(procs[k].log) :
           /\ l.level = "error" /\ l.text = "DEPLOY_FAILED"
           /\ procs[k].stderr # "" => \E n \in 1..Len(l.args) : l.args[n] = "stderr"
    /\ procs[k].status = "succeeded" =>
         (OutputLines(procs[k].log) # {} => procs[k].verbose)

\* The origins that carry the secret: the field of the configuration and
\* the signature computed from it.
SecretOrigins == {"config.secret", "expected"}
\* Every line logged so far: by createServer, while a request was handled,
\* by executeDeployment.
AllLogLines ==
  Lines(console)
    \cup UNION {Lines(reqs[i].log) : i \in ReqIds}
    \cup UNION {Lines(procs[k].log) : k \in 1..Len(procs)}

\* C32: no line logged, in the configuration summary or while a request is
\* verified and classified or a deployment runs, carries the secret or the
\* signature computed from it; the summary shows the project path, the
\* deploy command and the allowed branches.
C32_SecretNeverLogged ==
  /\ \A l \in AllLogLines : \A n \in 1..Len(l.args) : l.args[n] \notin SecretOrigins
  /\ app = "created" =>
       \A a \in {"config.projectPath", "config.deployCommand", "config.allowedBranches"} :
         \E l \in Lines(console) : l.args = <<a>>

\* The summary has been printed, a push was verified against the secret and
\* accepted, and its deployment failed with the command line in the log.
C32_Witness ==
  /\ \E l \in Lines(console) : l.text = "DEPLOY_COMMAND"
  /\ \E i \in ReqIds :
       /\ IsAccepted(i) /\ reqs[i].verify = "ok"
       /\ \E l \in Lines(reqs[i].log) : l.text = "EVENT_RECEIVED"
       /\ \E k \in Deployments(i) :
            /\ procs[k].status = "failed"
            /\ \E l \in Lines(procs[k].log) :
                 l.text = "DEPLOY_FAILED" /\ l.args[2] = "config.deployCommand"

\* C33: once the server is closing and every request received has been
\* answered, the process can exit at once, deployments still running or not;
\* the exit leaves the deployment processes as they are.
C33_ExitIgnoresDeployments ==
  /\ []((server = "closing" /\ exitCode = None /\ OpenConnections = {} /\ Running # {})
          => ENABLED Exit)
  /\ [][exitCode' # exitCode => procs' = procs]_vars

\* The process has exited with code 0 after a signal, and a deployment
\* triggered while the server was still listening is running.
C33_Witness ==
  /\ exitCode = Some(0) /\ Len(Received) >= 1
  /\ \E k \in Running : reqs[procs[k].req].during = "listening"

\* C40: a signal that comes while the server is already closing changes
\* nothing but the log: the process does not exit in that step and the
\* requests in flight stay as they are; whatever signals came, the process
\* has exited only with code 0 and with every request received answered, and
\* once they are answered it can exit.
C40_RepeatedSignals ==
  /\ [](exitCode # None => (exitCode = Some(0) /\ OpenConnections = {}))
  /\ []((server = "closing" /\ exitCode = None /\ OpenConnections = {}
            /\ Len(Received) >= 2) => ENABLED Exit)
  /\ [][(server = "closing" /\ Len(Received') > Len(Received)) =>
          (exitCode' = None /\ server' = "closing" /\ reqs' = reqs /\ procs' = procs)]_vars

\* SIGTERM, then SIGINT while the server was closing with a request in
\* flight; the request was answered and the process has exited with code 0.
C40_Witness ==
  /\ exitCode = Some(0)
  /\ Len(Received) = 2 /\ Received[1].text = "SIGTERM" /\ Received[2].text = "SIGINT"
  /\ \E i \in ReqIds : Responded(i) /\ reqs[i].during = "closing"

\* The status each disposition is answered with.
StatusOf(disposition) ==
  CASE disposition = "Malformed" -> 400
    [] disposition = "Rejected" -> 403
    [] disposition = "NotFound" -> 404
    [] disposition = "Fault" -> 500
    [] OTHER -> 200

\* C34: a request that has not been handled has been sent nothing; a request
\* that has been handled has been sent one response, whose status is the one
\* of the way it took through the chain, one of 200, 400, 403, 404 and 500;
\* and no step changes anything of a request that has been answered.
C34_AnsweredOnce ==
  /\ [](\A i \in ReqIds :
          IF Responded(i)
          THEN /\ reqs[i].sent = 1
               /\ reqs[i].status \in {200, 400, 403, 404, 500}
               /\ reqs[i].disposition \in
                    {"Malformed", "Rejected", "NotFound", "Fault", "IgnoredEvent",
                     "IgnoredBranch", "Accept", "Health", "Root"}
               /\ reqs[i].status = StatusOf(reqs[i].disposition)
          ELSE reqs[i].sent = 0 /\ reqs[i].status = 0)
  /\ [][\A i \in ReqIds : Responded(i) => reqs'[i] = reqs[i]]_vars

\* A request was rejected with 403 and another accepted with 200; the
\* deployment of the second has failed since, and each has still been sent
\* one response.
C34_Witness ==
  \E i, j \in ReqIds :
    /\ Responded(i) /\ reqs[i].status = 403 /\ reqs[i].sent = 1
    /\ IsAccepted(j) /\ reqs[j].sent = 1
    /\ \E k \in Deployments(j) : procs[k].status = "failed"

\* verifySignature ran for request i and returned false.
SignatureInvalid(i) ==
  reqs[i].verify \in {"missing-header", "missing-body", "length-mismatch", "mismatch",
                      "compare-threw"}

\* C35: every answered POST /webhook request for which verifySignature
\* returned false got 403 with the fixed body and no deployment, whatever
\* its event type and its ref; every one for which it returned true and
\* whose event type is not push got 200 with the event-ignore message that
\* names the event and no deployment, whatever its ref; and only a verified
\* push got the branch-ignore message.
C35_ChecksInOrder ==
  \A i \in ReqIds :
    (Responded(i) /\ IsWebhook(reqs[i].input)) =>
      /\ SignatureInvalid(i) =>
           /\ reqs[i].status = 403 /\ reqs[i].body = ErrorBody(MsgInvalidSignature)
           /\ reqs[i].disposition = "Rejected" /\ Deployments(i) = {}
      /\ (reqs[i].verify = "ok" /\ reqs[i].input.event # Some("push")) =>
           /\ reqs[i].status = 200
           /\ reqs[i].body =
                MessageBody(MsgEventIgnored, <<EventText(reqs[i].input.event)>>, FALSE)
           /\ reqs[i].disposition = "IgnoredEvent" /\ Deployments(i) = {}
      /\ reqs[i].body.text = MsgBranchIgnored =>
           (reqs[i].verify = "ok" /\ reqs[i].input.event = Some("push"))

\* A verified issues event whose ref names a branch that is not allowed got
\* the event-ignore message.
C35_Witness ==
  \E i \in ReqIds :
    /\ Responded(i) /\ reqs[i].verify = "ok"
    /\ reqs[i].input.event = Some("issues")
    /\ reqs[i].input.body = Some(B_feature_test)
    /\ HasNamedRef(i) /\ ~BranchAllowed(i)
    /\ reqs[i].body = MessageBody(MsgEventIgnored, <<"issues">>, FALSE)

\* C36 (as stated): every answered request, on any path and with any method,
\* whose body is malformed JSON got 400 with the body {error: MsgInvalidJson},
\* no route handler having run.
C36_Original ==
  \A i \in ReqIds :
    (/\ Responded(i)
     /\ IsSome(reqs[i].input.body) /\ Malformed(Get(reqs[i].input.body))) =>
      /\ reqs[i].status = 400 /\ reqs[i].body = ErrorBody(MsgInvalidJson)
      /\ reqs[i].disposition = "Malformed" /\ reqs[i].verify = ""
      /\ Deployments(i) = {}

\* C36 (amended): every answered request, on any path and with any method,
\* whose body is malformed JSON, is sent with the content type
\* application/json and is within the body limit got 400 with the body
\* {error: MsgInvalidJson}, no route handler having run: not the one of its
\* route, nor the 404 handler.
C36_ParseFailureFirst ==
  \A i \in ReqIds :
    (/\ Responded(i)
     /\ IsSome(reqs[i].input.body) /\ Malformed(Get(reqs[i].input.body))
     /\ reqs[i].input.contentType = Some(ContentJson)
     /\ ByteLength(Get(reqs[i].input.body)) <= BodyLimit) =>
      /\ reqs[i].status = 400 /\ reqs[i].body = ErrorBody(MsgInvalidJson)
      /\ reqs[i].disposition = "Malformed" /\ reqs[i].verify = ""
      /\ reqs[i].log = <<>>
      /\ Deployments(i) = {}

\* GET /health with a malformed JSON body, dressed as a signed push, was
\* answered 400.
C36_Witness ==
  \E i \in ReqIds :
    /\ Responded(i)
    /\ reqs[i].input.method = "GET" /\ reqs[i].input.path = "/health"
    /\ reqs[i].input.body = Some(B_malformed)
    /\ reqs[i].input.contentType = Some(ContentJson)
    /\ IsSome(reqs[i].input.sig256)
    /\ reqs[i].status = 400 /\ reqs[i].body = ErrorBody(MsgInvalidJson)

\* C37: every answered POST /webhook request whose signature verified and
\* that carries no x-github-event header got 200 with the event-ignore
\* message (naming the event 'undefined'), and no deployment.
C37_MissingEventIgnored ==
  \A i \in ReqIds :
    (/\ Responded(i) /\ IsWebhook(reqs[i].input)
     /\ reqs[i].verify = "ok" /\ ~IsSome(reqs[i].input.event)) =>
      /\ reqs[i].status = 200
      /\ reqs[i].body = MessageBody(MsgEventIgnored, <<"undefined">>, FALSE)
      /\ reqs[i].disposition = "IgnoredEvent"
      /\ Deployments(i) = {}

\* A verified request without the event header, whose payload is a push to
\* main, was answered with the event-ignore message.
C37_Witness ==
  \E i \in ReqIds :
    /\ Responded(i) /\ IsWebhook(reqs[i].input)
    /\ reqs[i].verify = "ok" /\ ~IsSome(reqs[i].input.event)
    /\ reqs[i].input.body = Some(B_main)
    /\ reqs[i].status = 200
    /\ reqs[i].body = MessageBody(MsgEventIgnored, <<"undefined">>, FALSE)
    /\ procs = <<>>

\* The ref of request i is present and is not a string.
HasNonStringRef(i) == IsSome(Ref(i)) /\ Get(Ref(i)).t # "str"

\* C38 (as stated): every answered POST /webhook request whose signature
\* verified, whose event type is push and whose ref is present but is not a
\* string got 500 with the generic internal-error body, and no deployment.
C38_Original ==
  \A i \in ReqIds :
    (/\ Responded(i) /\ IsWebhook(reqs[i].input)
     /\ reqs[i].verify = "ok" /\ reqs[i].input.event = Some("push")
     /\ HasNonStringRef(i)) =>
      /\ reqs[i].status = 500 /\ reqs[i].body = ErrorBody(MsgInternalError)
      /\ Deployments(i) = {}

\* C38 (amended): the same for a ref that is not a string and is truthy (a
\* number other than 0, true, an object or an array); a ref that is 0, false
\* or null is taken for no ref, and the push is accepted.
C38_NonStringRefFaults ==
  \A i \in ReqIds :
    (/\ Responded(i) /\ IsWebhook(reqs[i].input)
     /\ reqs[i].verify = "ok" /\ reqs[i].input.event = Some("push")
     /\ HasNonStringRef(i)) =>
      IF Truthy(Get(Ref(i)))
      THEN /\ reqs[i].status = 500 /\ reqs[i].body = ErrorBody(MsgInternalError)
           /\ reqs[i].disposition = "Fault"
           /\ Deployments(i) = {}
      ELSE /\ reqs[i].status = 200 /\ reqs[i].body = AcceptBody
           /\ reqs[i].disposition = "Accept"

\* A verified push whose ref is an object was answered 500.
C38_Witness ==
  \E i \in ReqIds :
    /\ Responded(i) /\ reqs[i].verify = "ok"
    /\ reqs[i].input.event = Some("push")
    /\ reqs[i].input.body = Some(B_obj_ref)
    /\ reqs[i].status = 500 /\ reqs[i].body = ErrorBody(MsgInternalError)
    /\ procs = <<>>

\* C39: the promise of executeDeployment is never rejected: it is pending
\* while the command runs and fulfilled once the command has ended, however
\* it ended (non-zero exit, spawn error, timeout, output over the buffer,
\* an error thrown at the call of exec); the result of a failure has
\* success = false and the error message, the result of a success has
\* success = true; and the line of the handler's catch for an unhandled
\* deployment error is never logged.
C39_NeverRejects ==
  /\ \A k \in 1..Len(procs) :
        /\ procs[k].promise # "rejected"
        /\ procs[k].status = "running" =>
             (procs[k].promise = "pending" /\ procs[k].result = None)
        /\ procs[k].status # "running" =>
             /\ procs[k].promise = "fulfilled" /\ IsSome(procs[k].result)
             /\ Get(procs[k].result).success = (procs[k].cause = "exit-0")
             /\ procs[k].cause # "exit-0" =>
                  /\ Get(procs[k].result).error = Some(ExecErrorMessage(procs[k].cause))
                  /\ \E l \in Lines(procs[k].log) : l.text = "DEPLOY_FAILED"
  /\ \A l \in AllLogLines : l.text # "UNHANDLED_DEPLOY_ERROR"

\* One deployment ended by an error thrown at the call of exec and another
\* by a command that could not be spawned; both promises are fulfilled with
\* success = false.
C39_Witness ==
  \E k, l \in 1..Len(procs) :
    /\ procs[k].cause = "exec-threw" /\ procs[l].cause \in {"spawn-error", "timeout"}
    /\ procs[k].promise = "fulfilled" /\ procs[l].promise = "fulfilled"
    /\ ~Get(procs[k].result).success /\ ~Get(procs[l].result).success
    /\ IsSome(Get(procs[k].result).error)

====
